---- MODULE Spec2Model ----
(***************************************************************************)
(* Verification model of the GeminiTL translation pipeline.                *)
(*                                                                         *)
(* Several state machines share this module:                               *)
(*   SpecTranslate  one Translator.translate call: the retry loop of       *)
(*                  generate_with_instructions, the PRIMARY -> SECONDARY   *)
(*                  fallback and the image-tag placeholder round trip.     *)
(*   SpecRun        the GUI (Run / Pause / Stop) and the worker thread     *)
(*                  running main(): translation phase, then proofing.      *)
(*   SpecProof      the AI copy-edit pass of main_ph on one output file.   *)
(*   SpecBatch      batch_retranslate and the non-English pass around it.  *)
(*   SpecGender     proof_gender_pronouns on one text.                     *)
(*   SpecCopyEdit   proofread_with_ai as translationManager calls it.      *)
(*   SpecGlossary   build_glossary, normalize_term and split_glossary.     *)
(*   SpecOrder      the order in which main() walks the chapter files.     *)
(*   SpecPhases     the phases of main() and the passes of                 *)
(*                  run_proofing_phase, file by file.                      *)
(*   SpecLinePass   the non-English pass of translation/proofing.py, line  *)
(*                  by line, with Stop pressed while it runs.              *)
(*   SpecCalls      one model call site: how it issues generate_content    *)
(*                  and what bounds its wait.                              *)
(*   SpecNormalize  Glossary.normalize_term on one term.                   *)
(*   SpecSplit      split_glossary on any master file.                     *)
(*   SpecMatch      the glossary entries handed to the model with a file.  *)
(*   SpecAIOrder    the final AI pass of run_proofing_phase over the       *)
(*                  output files and the previous chapter it hands on.     *)
(*   SpecGlossaryPhase  the glossary phase: build, proof and split, in the *)
(*                  order of each main().                                  *)
(*   SpecChapters   the translation loop of run_translation_phase with     *)
(*                  every translate call run step by step.                 *)
(* Each machine leaves the variables of the others untouched.              *)
(***************************************************************************)
EXTENDS Integers, Sequences, FiniteSets, TLC

VARIABLES
    \* ---- Translator.translate ----
    text,        \* the chapter text handed to translate (sequence of tokens)
    image_tags,  \* translate's local list image_tags
    prompt,      \* text_with_placeholders
    label,       \* instructions_label of the running generate_with_instructions
    attempt,     \* its local attempt
    tpc,         \* position of the worker inside translate
    calls,       \* underlying generate_content calls issued so far
    sleeps,      \* time.sleep calls made so far
    stuck,       \* the outstanding underlying call never returns
    ret,         \* what translate handed to its caller
    \* ---- the GUI and the worker thread running main() ----
    cfg,               \* which main() the worker runs, and its arguments
    pause_event,       \* TranslationApp.pause_event: TRUE when set (running)
    cancel_requested,  \* TranslationApp.cancel_requested
    w,                 \* the worker thread: position and loop variables
    out,               \* the files output/translated_<chapter>.txt
    hist,              \* what the run has done so far (observation only)
    \* ---- the AI copy-edit pass of main_ph on one output file ----
    file,        \* the content of the output file on disk
    ai,          \* the pass: position, attempt, content read, text returned
    \* ---- the non-English pass: batch_retranslate and its caller ----
    file_lines,  \* the flagged lines as they stand in the output files
    nb,          \* batch_retranslate: position, attempt, lines sent, result
    \* ---- proof_gender_pronouns on one text ----
    gp,          \* position, attempt, retry_delay, text, response, result
    \* ---- the AI copy-edit pass of translationManager on one output file ----
    ce,          \* position, attempt, content read, edited text, ai_proofed
    \* ---- the glossary files ----
    gl,          \* master glossary, name and context glossaries, last call
    \* ---- the order in which main() walks the chapter files ----
    fo,          \* input files, text_files, phase, files processed so far
    \* ---- main(): which phases and passes a run goes through ----
    mn,          \* main's arguments, position, and the calls made so far
    \* ---- the non-English pass, line by line, and the Stop button ----
    lp,          \* version, cancel flag, position, file, line, changed
    \* ---- one call site of the generative model and its underlying calls ----
    mc,          \* site, position, attempt, the underlying calls issued
    nt,          \* normalize_term: which version, the term, the value returned
    mt,          \* the glossary matchers: the entries, the text, what is handed on
    ao,          \* the final AI pass: output files, their order, files handled
    pg,          \* the glossary phase: master, chunks, derived files, position
    tc           \* the translation loop: chapter, retry_count, translate calls, saved

tvars == <<text, image_tags, prompt, label, attempt, tpc, calls, sleeps, stuck, ret>>
rvars == <<cfg, pause_event, cancel_requested, w, out, hist>>

pvars == <<file, ai>>

bvars == <<file_lines, nb>>

gvars == <<gp>>

\* the machines further down
\* the functions checked on their own, the final AI pass, the glossary phase
fvars == <<nt, mt, ao, pg, tc>>

xvars == <<gl, fo, mn, lp, mc, fvars>>

vars == <<tvars, rvars, pvars, bvars, gvars, ce, xvars>>

\* the variables each machine leaves alone
notTranslate == <<rvars, pvars, bvars, gvars, ce, xvars>>
notRun == <<tvars, pvars, bvars, gvars, ce, xvars>>
notProof == <<tvars, rvars, bvars, gvars, ce, xvars>>
notBatch == <<tvars, rvars, pvars, gvars, ce, xvars>>
notGender == <<tvars, rvars, pvars, bvars, ce, xvars>>
notCopyEdit == <<tvars, rvars, ai, bvars, gvars, xvars>>
notGlossary == <<tvars, rvars, pvars, bvars, gvars, ce, fo, mn, lp, mc, fvars>>
notOrder == <<tvars, rvars, pvars, bvars, gvars, ce, gl, mn, lp, mc, fvars>>
notPhases == <<tvars, rvars, pvars, bvars, gvars, ce, gl, fo, lp, mc, fvars>>
notLinePass == <<tvars, rvars, pvars, bvars, gvars, ce, gl, fo, mn, mc, fvars>>
notCalls == <<tvars, rvars, pvars, bvars, gvars, ce, gl, fo, mn, lp, fvars>>
\* the variables of the machines written before nt
dvars == <<tvars, rvars, pvars, bvars, gvars, ce, gl, fo, mn, lp, mc>>

notNormalize == <<dvars, mt, ao, pg, tc>>
notMatch == <<dvars, nt, ao, pg, tc>>
notAIOrder == <<dvars, nt, mt, pg, tc>>
notGlossaryPhase == <<dvars, nt, mt, ao, tc>>
notChapters == <<rvars, pvars, bvars, gvars, ce, gl, fo, mn, lp, mc, nt, mt, ao, pg>>

(***************************************************************************)
(* Bounds                                                                  *)
(***************************************************************************)
MaxTextLen == 2      \* tokens in a chapter text
NumChapters == 2     \* chapter files in input/
MaxLines == 12       \* lines in an output file or in a model response
MaxFlagged == 2      \* non-English lines sent in one batch
MaxGenderLines == 31 \* lines in a text or a response of the gender pass
MaxGenderRetries == 4 \* max_retries handed to proof_gender_pronouns

(***************************************************************************)
(* Texts.  A text is a sequence of tokens <<kind, n>>:                     *)
(*   <<"w", 0>>    ordinary prose                                          *)
(*   <<"img", n>>  an <img ...> tag, n identifies its exact characters     *)
(*   <<"ph", k>>   the literal text __IMAGE_TAG_k__                        *)
(***************************************************************************)
Word == <<"w", 0>>
ImgTokens == {<<"img", 1>>, <<"img", 2>>}

SeqsUpTo(S, n) == UNION {[1..m -> S] : m \in 0..n}

InputTexts == SeqsUpTo({Word} \cup ImgTokens, MaxTextLen)

DropAt(s, i) == [j \in 1..(Len(s) - 1) |-> IF j < i THEN s[j] ELSE s[j + 1]]
Reverse(s) == [j \in 1..Len(s) |-> s[Len(s) + 1 - j]]

\* response.text for prompt p.  The service is free to return anything; the
\* replies tried are the prompt kept as it is, emptied, with one token lost,
\* in reverse order, repeated, and with a placeholder the prompt never held.
ModelReplies(p) ==
    {p, <<>>, Reverse(p), p \o p, Append(p, <<"ph", Len(p)>>)}
        \cup {DropAt(p, i) : i \in 1..Len(p)}

RECURSIVE SelectKind(_, _)
SelectKind(s, kind) ==
    IF s = <<>> THEN <<>>
    ELSE IF Head(s)[1] = kind THEN <<Head(s)>> \o SelectKind(Tail(s), kind)
         ELSE SelectKind(Tail(s), kind)

\* image_tag_pattern.sub(store_image_tag, text): the tags found, in order.
StoreImageTags(t) == SelectKind(t, "img")

\* image_tag_pattern.sub(store_image_tag, text): the i-th tag found becomes
\* __IMAGE_TAG_{i-1}__ (len(image_tags)-1 at the time it is appended).
RECURSIVE SubstituteFrom(_, _)
SubstituteFrom(t, next) ==
    IF t = <<>> THEN <<>>
    ELSE IF Head(t)[1] = "img"
         THEN <<<<"ph", next>>>> \o SubstituteFrom(Tail(t), next + 1)
         ELSE <<Head(t)>> \o SubstituteFrom(Tail(t), next)

TextWithPlaceholders(t) == SubstituteFrom(t, 0)

\* restore_image_tag: a placeholder whose index is in range becomes the stored
\* tag, any other placeholder stays as it is.
RestoreToken(tok, tags) ==
    IF tok[1] = "ph" /\ 0 <= tok[2] /\ tok[2] < Len(tags)
    THEN tags[tok[2] + 1]
    ELSE tok

\* re.sub(r'__IMAGE_TAG_(\d+)__', restore_image_tag, translated)
RestoreImageTags(reply, tags) ==
    [i \in 1..Len(reply) |-> RestoreToken(reply[i], tags)]

(***************************************************************************)
(* Exceptions of the underlying call, by the text of str(e).               *)
(***************************************************************************)
ErrorMessages ==
    {"plain",          \* any text that is not JSON, e.g. "503 Service Unavailable"
     "quota",          \* "429 Quota exceeded ...", not JSON
     "no_candidates",  \* contains "Response has no candidates"
     "json_number",    \* str(e) is a JSON literal that is not an object, e.g. "503"
     "json_object",    \* a JSON object without a PROHIBITED_CONTENT block reason
     "json_block"}     \* {"prompt_feedback": {"block_reason": "PROHIBITED_CONTENT"}}

HasNoCandidates(m) == m = "no_candidates"

\* json.loads(error_str): "invalid" raises JSONDecodeError
JsonLoads(m) ==
    CASE m \in {"json_object", "json_block"} -> "object"
      [] m = "json_number" -> "nonobject"
      [] OTHER -> "invalid"

BlockReason(m) == IF m = "json_block" THEN "PROHIBITED_CONTENT" ELSE "None"

ClassifyJsonBlockRetried(m) ==
    IF HasNoCandidates(m) THEN "block" ELSE
    IF JsonLoads(m) = "invalid" THEN "retry" ELSE
    IF JsonLoads(m) = "nonobject" THEN "attribute_error" ELSE "retry"

\* The `except Exception as e` handler of generate_with_instructions:
\*   "block"            raise RuntimeError("PROHIBITED_CONTENT_BLOCK")
\*   "attribute_error"  data.get on a value that is no dict raises AttributeError,
\*                      which `except json.JSONDecodeError` does not catch
\*   "retry"            fall through to attempt += 1
Classify(m) ==
    IF HasNoCandidates(m) THEN "block" ELSE
    IF JsonLoads(m) = "invalid" THEN "retry" ELSE
    IF JsonLoads(m) = "nonobject" THEN "attribute_error" ELSE
    IF BlockReason(m) = "PROHIBITED_CONTENT" THEN "block" ELSE "retry"

\* The messages that are a content-policy rejection of the service.
ContentPolicyBlocks == {"no_candidates", "json_block"}

SecondaryThreeRetries(lbl) == 3

\* max_retries passed by translate: 3 for PRIMARY, 2 for SECONDARY
MaxRetries(lbl) == IF lbl = "PRIMARY" THEN 3 ELSE 2

\* retry_delay passed by translate: 60 for PRIMARY, 5 for SECONDARY
RetryDelay(lbl) == IF lbl = "PRIMARY" THEN 60 ELSE 5

\* time.sleep(5) before the SECONDARY attempt and after "Also blocked"
BlockedDelay == 5

NoneResult == [kind |-> "None", text |-> <<>>]
Pending == [kind |-> "pending", text |-> <<>>]
Raised == [kind |-> "raised", text |-> <<>>]
TextResult(t) == [kind |-> "text", text |-> t]

Prohibited == "PROHIBITED_CONTENT_BLOCK"

\* The bare `raise` that ends generate_with_instructions when the attempts
\* are used up runs outside any handler of its own: it re-raises the exception
\* being handled up the stack.  The SECONDARY call is made from inside
\* translate's `except RuntimeError as e` handler, so that exception is the
\* PRIMARY block; the PRIMARY call has none and Python raises
\* RuntimeError("No active exception to reraise").
BareRaise(lbl) ==
    IF lbl = "SECONDARY" THEN Prohibited ELSE "No active exception to reraise"

\* What translate does with an exception leaving generate_with_instructions.
\* An exception of the SECONDARY call that is no RuntimeError is raised inside
\* the handler of the outer try, where `except Exception` no longer applies.
TranslateExcept(lbl, type, msg) ==
    IF lbl = "PRIMARY"
    THEN IF type = "RuntimeError"
         THEN IF msg = Prohibited THEN "secondary" ELSE "none"
         ELSE "none"
    ELSE IF type = "RuntimeError"
         THEN IF msg = Prohibited THEN "none_after_sleep" ELSE "none"
         ELSE "escape"

Goto(l, a, p, sl, r) ==
    /\ label' = l
    /\ attempt' = a
    /\ tpc' = p
    /\ sleeps' = sl
    /\ ret' = r

Slept(by, secs) == Append(sleeps, [by |-> by, secs |-> secs])

\* An exception leaves generate_with_instructions and reaches translate.
Raise(type, msg) ==
    LET h == TranslateExcept(label, type, msg) IN
    CASE h = "secondary" ->
            Goto("SECONDARY", 0, "loop", Slept("translate", BlockedDelay), ret)
      [] h = "none" -> Goto(label, attempt, "done", sleeps, NoneResult)
      [] h = "none_after_sleep" ->
            Goto(label, attempt, "done", Slept("translate", BlockedDelay), NoneResult)
      [] OTHER -> Goto(label, attempt, "done", sleeps, Raised)

\* attempt += 1, then sleep and loop, or the bare raise.
AttemptFailed ==
    IF attempt + 1 < MaxRetries(label)
    THEN Goto(label, attempt + 1, "loop", Slept(label, RetryDelay(label)), ret)
    ELSE Raise("RuntimeError", BareRaise(label))

SetOutcome(o) == calls' = [calls EXCEPT ![Len(calls)].outcome = o]

(***************************************************************************)
(* The state of a machine that is not running.                             *)
(***************************************************************************)
Chapters == 1..NumChapters
Variants == {"main_ph", "translationManager"}

IdleWorker ==
    [pc |-> "idle", idx |-> 0, retry_count |-> 0, files |-> {}, flagged |-> {}]

NoHistory ==
    [chapter |-> 0, last |-> "none", call |-> "none", wrote |-> FALSE,
     logged |-> FALSE, cancelSeen |-> FALSE, callAfterCancel |-> FALSE,
     stopWhileBlocked |-> FALSE, setSeen |-> FALSE]

IdleTranslate ==
    /\ text = <<>>
    /\ image_tags = <<>>
    /\ prompt = <<>>
    /\ label = "NONE"
    /\ attempt = 0
    /\ tpc = "idle"
    /\ calls = <<>>
    /\ sleeps = <<>>
    /\ stuck = FALSE
    /\ ret = Pending

\* A text as the proofing passes see it: its number of lines and who wrote
\* it.  The empty string has no lines.
EmptyText == [lines |-> 0, by |-> "nobody"]
TextOf(n, by) == IF n = 0 THEN EmptyText ELSE [lines |-> n, by |-> by]

IdleAI == [pc |-> "idle", attempt |-> 0, content |-> EmptyText,
           proofed_content |-> EmptyText]

IdleProof ==
    /\ file = EmptyText
    /\ ai = IdleAI

\* what a function returns when it falls off its end
NoText == [lines |-> 0, by |-> "None"]

IdleCopyEdit ==
    ce = [pc |-> "idle", attempt |-> 0, sleeps |-> <<>>, content |-> EmptyText,
          answered |-> FALSE, edited |-> EmptyText, ai_proofed |-> NoText]

IdleGender ==
    gp = [pc |-> "idle", max_retries |-> 3, attempt |-> 0, retry_delay |-> 0,
          sleeps |-> <<>>,
          text |-> EmptyText, response |-> EmptyText, result |-> EmptyText]

IdleBatch ==
    /\ file_lines = <<>>
    /\ nb = [pc |-> "idle", attempt |-> 0, sleeps |-> <<>>, response |-> <<>>,
             last |-> "none", fixed_lines |-> "None"]

IdleRun ==
    /\ cfg = [variant |-> "translationManager"]
    /\ pause_event = TRUE
    /\ cancel_requested = FALSE
    /\ w = IdleWorker
    /\ out = [c \in Chapters |-> "absent"]
    /\ hist = NoHistory

\* the glossary file as ensure_glossary_exists creates it, nothing split yet
IdleGlossary ==
    gl = [master |-> <<>>, names |-> <<>>, contexts |-> <<>>, last |-> "none"]

IdleOrder ==
    fo = [variant |-> "translationManager", input_files |-> {}, pc |-> "idle",
          text_files |-> <<>>, processed |-> <<>>]

IdleMain ==
    [variant |-> "translationManager", proofing_only |-> FALSE,
     skip_phase1 |-> FALSE, subphase |-> "None", inputs |-> 0, pc |-> "idle",
     idx |-> 0, calls |-> {}, visited |-> {}, passes |-> <<>>, read |-> {},
     flagged |-> FALSE, caught |-> {}]

IdlePhases == mn = IdleMain

IdleLinePass ==
    lp = [version |-> "proofing.proofing", cancel_flag |-> FALSE,
          cancel_requested |-> FALSE, pc |-> "idle", file |-> 0, line |-> 0,
          changed |-> FALSE, written |-> {}, cut |-> FALSE, discarded |-> FALSE]

\* the machines that were idle in every specification written before them
IdleEarlier ==
    /\ IdleTranslate
    /\ IdleRun
    /\ IdleProof
    /\ IdleBatch
    /\ IdleGender
    /\ IdleCopyEdit

IdleCalls ==
    mc = [site |-> "translate", pc |-> "idle", attempt |-> 0, calls |-> <<>>]

IdleNormalize ==
    nt = [version |-> "translation.glossary", term |-> <<>>, pc |-> "idle",
          normalized |-> <<>>]

IdleMatch ==
    mt = [site |-> "proof_gender_pronouns", glossary |-> <<>>, text |-> <<>>,
          context_dict |-> {}, handed |-> {}, pc |-> "idle"]

IdleAIOrder ==
    ao = [output_files |-> {}, translated_files |-> <<>>, handled |-> <<>>,
          pc |-> "idle"]

IdleGlossaryPhase ==
    pg = [variant |-> "translationManager", pc |-> "idle", chapter |-> 0,
          master |-> <<>>, derived |-> <<>>, chunk |-> 1, cleaned |-> <<>>,
          failed |-> {}, proofed |-> FALSE]

IdleChapters ==
    tc = [pc |-> "idle", idx |-> 0, retry_count |-> 0, translate_calls |-> 0,
          saved |-> FALSE]

IdleFunctions ==
    /\ IdleNormalize
    /\ IdleMatch
    /\ IdleAIOrder
    /\ IdleGlossaryPhase
    /\ IdleChapters

\* every machine that drives files, phases or model calls is idle
IdleDrivers ==
    /\ IdleEarlier
    /\ IdleChapters
    /\ IdleGlossary
    /\ IdleOrder
    /\ IdlePhases
    /\ IdleLinePass
    /\ IdleCalls

IdleLater ==
    /\ IdleGlossary
    /\ IdleOrder
    /\ IdlePhases
    /\ IdleLinePass
    /\ IdleCalls
    /\ IdleFunctions

(***************************************************************************)
(* Translator.translate, step by step.                                     *)
(***************************************************************************)
TranslateStart ==
    /\ tpc = "start"
    /\ image_tags' = StoreImageTags(text)
    /\ prompt' = TextWithPlaceholders(text)
    /\ Goto("PRIMARY", 0, "loop", sleeps, ret)
    /\ UNCHANGED <<text, calls, stuck>>
    /\ UNCHANGED notTranslate

\* executor.submit(tl_model.generate_content, prompt)
Submit ==
    /\ tpc = "loop"
    /\ attempt < MaxRetries(label)
    /\ calls' = Append(calls, [label |-> label, outcome |-> "pending"])
    /\ tpc' = "call"
    /\ UNCHANGED <<text, image_tags, prompt, label, attempt, sleeps, stuck, ret>>
    /\ UNCHANGED notTranslate

\* future.result returns in time; generate_with_instructions returns
\* response.text and translate restores the image tags.
ReturnsText ==
    /\ tpc = "call"
    /\ \E reply \in ModelReplies(prompt) :
          /\ SetOutcome("text")
          /\ Goto(label, attempt, "done", sleeps,
                  IF reply = <<>> THEN NoneResult
                  ELSE TextResult(RestoreImageTags(reply, image_tags)))
    /\ UNCHANGED <<text, image_tags, prompt, stuck>>
    /\ UNCHANGED notTranslate

\* future.result re-raises the exception of generate_content.
RaisesError ==
    /\ tpc = "call"
    /\ \E m \in ErrorMessages :
          /\ SetOutcome(m)
          /\ CASE Classify(m) = "block" -> Raise("RuntimeError", Prohibited)
               [] Classify(m) = "attribute_error" -> Raise("AttributeError", m)
               [] OTHER -> AttemptFailed
    /\ UNCHANGED <<text, image_tags, prompt, stuck>>
    /\ UNCHANGED notTranslate

\* future.result(timeout=90) raises TimeoutError inside the `with` block; the
\* block's exit runs executor.shutdown(wait=True), which joins the thread
\* still running generate_content.
TimeoutElapses ==
    /\ tpc = "call"
    /\ SetOutcome("timeout")
    /\ \E s \in BOOLEAN : stuck' = s
    /\ tpc' = "shutdown"
    /\ UNCHANGED <<text, image_tags, prompt, label, attempt, sleeps, ret>>
    /\ UNCHANGED notTranslate

\* The late call ends, shutdown returns, `except TimeoutError` logs.
ShutdownReturns ==
    /\ tpc = "shutdown"
    /\ ~stuck
    /\ AttemptFailed
    /\ UNCHANGED <<text, image_tags, prompt, calls, stuck>>
    /\ UNCHANGED notTranslate

InitTranslate ==
    /\ text \in InputTexts
    /\ image_tags = <<>>
    /\ prompt = <<>>
    /\ label = "NONE"
    /\ attempt = 0
    /\ tpc = "start"
    /\ calls = <<>>
    /\ sleeps = <<>>
    /\ stuck = FALSE
    /\ ret = Pending
    /\ IdleRun
    /\ IdleProof
    /\ IdleBatch
    /\ IdleGender
    /\ IdleCopyEdit
    /\ IdleLater

NextTranslate ==
    \/ TranslateStart
    \/ Submit
    \/ ReturnsText
    \/ RaisesError
    \/ TimeoutElapses
    \/ ShutdownReturns

SpecTranslate == InitTranslate /\ [][NextTranslate]_vars

(***************************************************************************)
(* Claims about Translator.translate (checked under SpecTranslate)         *)
(***************************************************************************)
CallsWith(lbl) == {i \in 1..Len(calls) : calls[i].label = lbl}
PrimaryBlocked ==
    \E i \in CallsWith("PRIMARY") : calls[i].outcome \in ContentPolicyBlocks
TranslateReturned == tpc = "done"

\* C1 (as stated): when every underlying call raises an error that is not a
\* content-policy block, translate makes exactly 3 underlying calls and then
\* returns None.
C1_TransientErrorsTakeThreeCalls ==
    (/\ TranslateReturned
     /\ calls # <<>>
     /\ \A i \in 1..Len(calls) :
           calls[i].outcome \in ErrorMessages \ ContentPolicyBlocks)
    => (Len(calls) = 3 /\ ret = NoneResult)

\* C2: once a PRIMARY call has reported a content-policy block, every later
\* underlying call of the same translate is made with another instruction set.
C2_NoPrimaryCallAfterBlock ==
    \A i, j \in 1..Len(calls) :
        (/\ i < j
         /\ calls[i].label = "PRIMARY"
         /\ calls[i].outcome \in ContentPolicyBlocks)
        => calls[j].label # "PRIMARY"

\* C2 witness: the block came on the second PRIMARY attempt and a call
\* followed it.
C2_Witness ==
    /\ Len(calls) >= 3
    /\ calls[2].label = "PRIMARY"
    /\ calls[2].outcome \in ContentPolicyBlocks
    /\ calls[3].label = "SECONDARY"

\* C3 (as stated): after a PRIMARY block, translate makes exactly one
\* underlying call with the SECONDARY instruction set before it gives up.
C3_SecondaryCalledExactlyOnce ==
    (TranslateReturned /\ PrimaryBlocked)
    => Cardinality(CallsWith("SECONDARY")) = 1

\* C3 (amended): after a PRIMARY block, translate makes one or two underlying
\* SECONDARY calls before it gives up, never a third, and a second one only
\* when the first timed out or raised an error that is no block.
C3_SecondaryCalledOnceOrTwice ==
    (TranslateReturned /\ PrimaryBlocked)
    => LET sec == CallsWith("SECONDARY") IN
       /\ Cardinality(sec) \in {1, 2}
       /\ Cardinality(sec) = 2 =>
             \E i \in sec :
                /\ i + 1 \in sec
                /\ calls[i].outcome \in {"timeout", "plain", "quota", "json_object"}

\* C3 witness: translate gave up after two SECONDARY calls.
C3_Witness ==
    /\ TranslateReturned
    /\ PrimaryBlocked
    /\ Cardinality(CallsWith("SECONDARY")) = 2
    /\ ret = NoneResult

\* C7 (as stated): the worker is never left waiting for an underlying call
\* that does not return.  In the state excluded here the timeout has elapsed
\* and the worker sits in executor.shutdown(wait=True) with no step left.
C7_WorkerNeverWaitsForStuckCall == ~(tpc = "shutdown" /\ stuck)

\* C8 (as stated): the text a successful translate returns holds exactly the
\* image tags of the input, each once and in their original order.
C8_ImageTagsPreserved ==
    ret.kind = "text" => SelectKind(ret.text, "img") = SelectKind(text, "img")

\* C32: within one generate_with_instructions call the waits before
\* successive retries grow: each wait is the one before it multiplied by a
\* fixed factor greater than 1, so it is longer than the one before it and
\* three waits in a row are in geometric proportion.
C32_WaitsGrowByAFixedFactor ==
    /\ \A i \in DOMAIN sleeps :
          (/\ i + 1 \in DOMAIN sleeps
           /\ sleeps[i].by \in {"PRIMARY", "SECONDARY"}
           /\ sleeps[i + 1].by = sleeps[i].by)
          => sleeps[i + 1].secs > sleeps[i].secs
    /\ \A i \in DOMAIN sleeps :
          (/\ i + 2 \in DOMAIN sleeps
           /\ sleeps[i].by \in {"PRIMARY", "SECONDARY"}
           /\ sleeps[i + 1].by = sleeps[i].by
           /\ sleeps[i + 2].by = sleeps[i].by)
          => sleeps[i + 1].secs * sleeps[i + 1].secs
               = sleeps[i].secs * sleeps[i + 2].secs

\* the wait the step being taken adds after the failure of the last call
WaitAdded == sleeps'[Len(sleeps')].secs
FailureWaitedFor(m) ==
    /\ tpc \in {"call", "shutdown"}
    /\ tpc' = "loop"
    /\ Len(sleeps') = Len(sleeps) + 1
    /\ calls'[Len(calls')].outcome = m

\* C33: a failure recognised as a rate-limit or quota signal is followed by
\* a wait strictly longer than the wait that follows any other transient
\* failure (a timeout, a plain error) on the same attempt number with the
\* same instruction set.
C33_QuotaWaitsLonger ==
    [][FailureWaitedFor("quota") => WaitAdded > RetryDelay(label)]_vars

\* C34: every exception of the underlying call that is not a content-policy
\* block consumes exactly one attempt and, while attempts remain, is followed
\* by another attempt with the same instruction set; it never ends the call
\* early.
C34_OtherErrorsAreRetried ==
    [][(/\ tpc = "call"
        /\ calls'[Len(calls')].outcome \in ErrorMessages \ ContentPolicyBlocks
        /\ attempt + 1 < MaxRetries(label))
       => (/\ tpc' = "loop"
           /\ label' = label
           /\ attempt' = attempt + 1)]_vars

(***************************************************************************)
(* The GUI.  threading.Event.set() releases a thread blocked in wait(): the *)
(* waiter returns even if the event is cleared again before it runs.       *)
(***************************************************************************)
Released(wk) ==
    IF wk.pc = "tr_wait" THEN [wk EXCEPT !.pc = "tr_woken"]
    ELSE IF wk.pc = "pf_wait" THEN [wk EXCEPT !.pc = "pf_woken"]
    ELSE wk

\* TranslationApp.toggle_pause
TogglePause ==
    /\ IF pause_event
       THEN /\ pause_event' = FALSE
            /\ UNCHANGED <<w, hist>>
       ELSE /\ pause_event' = TRUE
            /\ w' = Released(w)
            /\ hist' = [hist EXCEPT !.setSeen = TRUE]
    /\ UNCHANGED <<cfg, cancel_requested, out>>
    /\ UNCHANGED notRun

\* TranslationApp.stop_translation
StopTranslation ==
    /\ cancel_requested' = TRUE
    /\ pause_event' = TRUE
    /\ w' = Released(w)
    /\ hist' = [hist EXCEPT !.setSeen = TRUE,
                            !.stopWhileBlocked = @ \/ w.pc = "tr_wait"]
    /\ UNCHANGED <<cfg, out>>
    /\ UNCHANGED notRun

(***************************************************************************)
(* The worker thread: main(), translation phase.                           *)
(***************************************************************************)
\* max_retries of the size-deviation loop of run_translation_phase
MaxSizeRetries == 4

\* What Translator.translate hands back for a chapter: None, a text whose
\* size is within the thresholds, a text whose size deviates, or an exception.
TranslateResults == {"None", "fit", "deviant", "raise"}

\* a model call is issued by the step being taken
ModelCall == hist' = [hist EXCEPT !.callAfterCancel = @ \/ hist.cancelSeen]

At(pc) == w.pc = pc
Step(pc) == w' = [w EXCEPT !.pc = pc]
Break == w' = [w EXCEPT !.pc = "pf_start"]
\* `continue`, or the end of the loop body: the for loop takes the next file
NextChapter == w' = [w EXCEPT !.pc = "tr_top", !.idx = @ + 1, !.retry_count = 0]

\* The Run button: worker() calls main(), which reaches the translation loop.
RunTranslation ==
    /\ At("idle")
    /\ w' = [IdleWorker EXCEPT !.pc = "tr_top", !.idx = 1]
    /\ hist' = NoHistory
    /\ UNCHANGED <<cfg, pause_event, cancel_requested, out>>
    /\ UNCHANGED notRun

\* for i, filename in enumerate(text_files, 1): ... if cancel_flag(): break
LoopTop ==
    /\ At("tr_top")
    /\ IF w.idx > NumChapters
       THEN Break /\ UNCHANGED hist
       ELSE IF cancel_requested
            THEN Break /\ hist' = [hist EXCEPT !.cancelSeen = TRUE]
            ELSE Step("tr_pause") /\ UNCHANGED hist
    /\ UNCHANGED <<cfg, pause_event, cancel_requested, out>>
    /\ UNCHANGED notRun

\* main_ph:             if pause_event: pause_event.wait()
\* translationManager:  if pause_event and pause_event.is_set(): ...
PauseCheckpoint ==
    /\ At("tr_pause")
    /\ hist' = [hist EXCEPT !.setSeen = pause_event]
    /\ IF cfg.variant = "main_ph"
       THEN IF pause_event THEN Step("tr_begin") ELSE Step("tr_wait")
       ELSE IF pause_event THEN Step("tr_callwait") ELSE Step("tr_begin")
    /\ UNCHANGED <<cfg, pause_event, cancel_requested, out>>
    /\ UNCHANGED notRun

\* translationManager: pause_event.wait(), reached after is_set() was true
CallWait ==
    /\ At("tr_callwait")
    /\ IF pause_event THEN Step("tr_recheck") ELSE Step("tr_wait")
    /\ UNCHANGED <<cfg, pause_event, cancel_requested, out, hist>>
    /\ UNCHANGED notRun

\* wait() returns after a set() released it
WaitReturns ==
    /\ At("tr_woken")
    /\ IF cfg.variant = "main_ph" THEN Step("tr_begin") ELSE Step("tr_recheck")
    /\ UNCHANGED <<cfg, pause_event, cancel_requested, out, hist>>
    /\ UNCHANGED notRun

\* translationManager: if cancel_flag and cancel_flag(): ... break
RecheckCancel ==
    /\ At("tr_recheck")
    /\ IF cancel_requested
       THEN Break /\ hist' = [hist EXCEPT !.cancelSeen = TRUE]
       ELSE Step("tr_begin") /\ UNCHANGED hist
    /\ UNCHANGED <<cfg, pause_event, cancel_requested, out>>
    /\ UNCHANGED notRun

\* The chapter file is read and translator.translate is called.
\* translationManager first skips an empty file and copies an HTML-only one.
BeginChapter ==
    /\ At("tr_begin")
    /\ \E kind \in {"empty", "html_only", "prose"} :
          CASE kind = "prose" ->
                 /\ Step("tr_translating")
                 /\ ModelCall
                 /\ UNCHANGED out
            [] kind = "empty" /\ cfg.variant = "translationManager" ->
                 /\ NextChapter
                 /\ UNCHANGED <<out, hist>>
            [] kind = "html_only" /\ cfg.variant = "translationManager" ->
                 /\ NextChapter
                 /\ out' = [out EXCEPT ![w.idx] = "copy"]
                 /\ UNCHANGED hist
            [] OTHER -> FALSE
    /\ UNCHANGED <<cfg, pause_event, cancel_requested>>
    /\ UNCHANGED notRun

\* observation: translate returned r for chapter w.idx on its first call or
\* on a retry, and the loop body wrote the output file / logged a failure
Returned(r, call, wrote, logged) ==
    hist' = [hist EXCEPT !.chapter = w.idx, !.last = r, !.call = call,
                         !.wrote = wrote, !.logged = logged]

Written(content) == out' = [out EXCEPT ![w.idx] = content]

BreakInsteadOfContinue(wk) == [wk EXCEPT !.pc = "pf_start"]

\* `if translated is None: log_message(...); continue`
ContinueAfterNone(wk) ==
    [wk EXCEPT !.pc = "tr_top", !.idx = @ + 1, !.retry_count = 0]

\* translator.translate returns for the first time
TranslateReturns ==
    /\ At("tr_translating")
    /\ \E r \in TranslateResults :
          CASE r = "None" ->
                 /\ w' = ContinueAfterNone(w)
                 /\ Returned(r, "first", FALSE, TRUE)
                 /\ UNCHANGED out
            [] r = "raise" ->
                 /\ NextChapter
                 /\ Returned(r, "first", FALSE, TRUE)
                 /\ UNCHANGED out
            [] r = "deviant" /\ cfg.variant = "translationManager" ->
                 /\ w' = [w EXCEPT !.pc = "tr_retry", !.retry_count = 1]
                 /\ Returned(r, "first", FALSE, FALSE)
                 /\ UNCHANGED out
            [] OTHER ->
                 /\ NextChapter
                 /\ Returned(r, "first", TRUE, FALSE)
                 /\ Written("first")
    /\ UNCHANGED <<cfg, pause_event, cancel_requested>>
    /\ UNCHANGED notRun

\* translationManager: translator.translate returns inside the size loop
RetryReturns ==
    /\ At("tr_retry")
    /\ \E r \in TranslateResults :
          CASE r = "None" ->
                 /\ NextChapter
                 /\ Returned(r, "retry", TRUE, TRUE)
                 /\ Written("first")
            [] r = "raise" ->
                 /\ NextChapter
                 /\ Returned(r, "retry", FALSE, TRUE)
                 /\ UNCHANGED out
            [] r = "fit" ->
                 /\ NextChapter
                 /\ Returned(r, "retry", TRUE, FALSE)
                 /\ Written("retry")
            [] OTHER ->
                 IF w.retry_count < MaxSizeRetries
                 THEN /\ w' = [w EXCEPT !.retry_count = @ + 1]
                      /\ Returned(r, "retry", FALSE, FALSE)
                      /\ UNCHANGED out
                 ELSE /\ NextChapter
                      /\ Returned(r, "retry", TRUE, FALSE)
                      /\ Written("first")
    /\ UNCHANGED <<cfg, pause_event, cancel_requested>>
    /\ UNCHANGED notRun

(***************************************************************************)
(* The worker thread: the proofing passes.  A file's content is one of     *)
(* Contents; the passes visit the files present in the output directory.   *)
(***************************************************************************)
Contents ==
    {"absent", "old", "first", "retry", "copy", "fixed", "gendered", "edited",
     "empty"}

Present(c) == out[c] # "absent"

\* the first listed file at or after position i, NumChapters + 1 if none
NextFile(i) ==
    LET later == {j \in i..NumChapters : Present(j)}
    IN  IF later = {} THEN NumChapters + 1
        ELSE CHOOSE j \in later : \A k \in later : j <= k

StartPass(pc) == w' = [w EXCEPT !.pc = pc, !.idx = NextFile(1)]
NextInPass == w' = [w EXCEPT !.idx = NextFile(w.idx + 1)]

\* Phase 3 / run_proofing_phase begins, whatever ended the translation loop.
\* What was observed of the translation loop is dropped, except that the
\* loop saw the cancel flag.
StartProofing ==
    /\ At("pf_start")
    /\ w' = [w EXCEPT !.pc = "ne_top", !.idx = NextFile(1),
                      !.files = {}, !.flagged = {}]
    /\ hist' = [NoHistory EXCEPT !.cancelSeen = hist.cancelSeen]
    /\ UNCHANGED <<cfg, pause_event, cancel_requested, out>>
    /\ UNCHANGED notRun

\* detect_and_log_non_english_sentences, one file of the loop.
\* main_ph calls the old pass without pause_event and cancel_flag: a flagged
\* line is retranslated on the spot and the file rewritten when a line changed.
\* translationManager calls the new pass, which checks both and only reads.
NonEnglishFile ==
    /\ At("ne_top")
    /\ IF w.idx > NumChapters
       THEN /\ IF cfg.variant = "main_ph" THEN Step("gd_start") ELSE Step("ne_batch")
            /\ UNCHANGED <<out, hist>>
       ELSE IF cfg.variant = "main_ph"
            THEN /\ NextInPass
                 /\ \E flagged \in BOOLEAN, replaced \in BOOLEAN :
                       IF flagged
                       THEN /\ ModelCall
                            /\ out' = IF replaced THEN [out EXCEPT ![w.idx] = "fixed"]
                                       ELSE out
                       ELSE UNCHANGED <<out, hist>>
            ELSE /\ IF cancel_requested THEN Step("ne_batch")
                    ELSE IF ~pause_event THEN Step("pf_wait")
                    ELSE Step("ne_read")
                 /\ UNCHANGED <<out, hist>>
    /\ UNCHANGED <<cfg, pause_event, cancel_requested>>
    /\ UNCHANGED notRun

\* new pass: pause_event.wait() returns
ProofWaitReturns ==
    /\ At("pf_woken")
    /\ Step("ne_read")
    /\ UNCHANGED <<cfg, pause_event, cancel_requested, out, hist>>
    /\ UNCHANGED notRun

\* new pass: the file is read and its non-English lines are collected
NonEnglishRead ==
    /\ At("ne_read")
    /\ \E flagged \in BOOLEAN :
          w' = [w EXCEPT !.pc = "ne_top", !.idx = NextFile(w.idx + 1),
                         !.files = @ \cup {w.idx},
                         !.flagged = IF flagged THEN @ \cup {w.idx} ELSE @]
    /\ UNCHANGED <<cfg, pause_event, cancel_requested, out, hist>>
    /\ UNCHANGED notRun

\* new pass: one batch_retranslate call for all flagged lines, then every
\* file that was read is written back
NonEnglishBatch ==
    /\ At("ne_batch")
    /\ Step("gd_start")
    /\ IF w.flagged = {}
       THEN UNCHANGED <<out, hist>>
       ELSE /\ ModelCall
            /\ \E fixed_lines \in {"None", "lines"} :
                  out' = IF fixed_lines = "None" THEN out
                         ELSE [c \in Chapters |->
                                 IF c \in w.flagged THEN "fixed" ELSE out[c]]
    /\ UNCHANGED <<cfg, pause_event, cancel_requested>>
    /\ UNCHANGED notRun

\* main_ph: proof_gender_pronouns_for_all_files returns at once when the
\* context glossary is empty.  translationManager always runs the pass.
StartGender ==
    /\ At("gd_start")
    /\ IF cfg.variant = "main_ph"
       THEN \E context_dict \in {"empty", "entries"} :
              IF context_dict = "empty" THEN StartPass("ai_top") ELSE StartPass("gd_top")
       ELSE StartPass("gd_top")
    /\ UNCHANGED <<cfg, pause_event, cancel_requested, out, hist>>
    /\ UNCHANGED notRun

\* What proof_gender_pronouns can return for a non-blank text: the text
\* itself, a corrected text, a corrected text more than 10 lines longer or
\* shorter, or the empty string (old version only: a blank response stripped).
GenderResults(variant) ==
    IF variant = "main_ph" THEN {"same", "gendered", "long", "empty"}
    ELSE {"same", "gendered"}

\* The gender pass, one file.  main_ph runs its file loop twice (the second
\* copy of the loop has no line-count check) and writes when the text
\* differs; translationManager writes whatever comes back.
GenderFile ==
    /\ w.pc \in {"gd_top", "gd_again"}
    /\ IF w.idx > NumChapters
       THEN /\ IF cfg.variant = "main_ph" /\ At("gd_top")
               THEN StartPass("gd_again") ELSE StartPass("ai_top")
            /\ UNCHANGED <<out, hist>>
       ELSE /\ NextInPass
            /\ IF out[w.idx] = "empty"
               THEN UNCHANGED <<out, hist>>
               ELSE /\ ModelCall
                    /\ \E r \in GenderResults(cfg.variant) :
                          out' = CASE r = "same" -> out
                                   [] r = "long" /\ At("gd_top") -> out
                                   [] r = "empty" -> [out EXCEPT ![w.idx] = "empty"]
                                   [] OTHER -> [out EXCEPT ![w.idx] = "gendered"]
    /\ UNCHANGED <<cfg, pause_event, cancel_requested>>
    /\ UNCHANGED notRun

\* What proofread_with_ai can return: the file's content, an edited text,
\* the empty string, or (new version, every attempt failed early) None.
AIResults(variant) ==
    IF variant = "main_ph" THEN {"same", "edited", "empty"}
    ELSE {"same", "edited", "empty", "None"}

\* main_ph:             if proofed_content != content: write
\* translationManager:  if ai_proofed: write
AIWrites(variant, content, r) ==
    IF variant = "main_ph"
    THEN r = "edited" \/ (r = "empty" /\ content # "empty")
    ELSE (r = "same" /\ content # "empty") \/ r = "edited"

\* The AI copy-edit pass, one file; after the last file main returns.
AIFile ==
    /\ At("ai_top")
    /\ IF w.idx > NumChapters
       THEN Step("returned") /\ UNCHANGED <<out, hist>>
       ELSE /\ NextInPass
            /\ ModelCall
            /\ \E r \in AIResults(cfg.variant) :
                  out' = IF AIWrites(cfg.variant, out[w.idx], r)
                         THEN [out EXCEPT ![w.idx] = IF r = "same" THEN @ ELSE r]
                         ELSE out
    /\ UNCHANGED <<cfg, pause_event, cancel_requested>>
    /\ UNCHANGED notRun

\* worker(): finally: pause_event.set(); cancel_requested = False
Finally ==
    /\ At("returned")
    /\ w' = IdleWorker
    /\ pause_event' = TRUE
    /\ cancel_requested' = FALSE
    /\ hist' = NoHistory
    /\ UNCHANGED <<cfg, out>>
    /\ UNCHANGED notRun

InitRun ==
    /\ cfg \in [variant : Variants]
    /\ pause_event = TRUE
    /\ cancel_requested = FALSE
    /\ w = IdleWorker
    /\ out \in [Chapters -> {"absent", "old"}]
    /\ hist = NoHistory
    /\ IdleTranslate
    /\ IdleProof
    /\ IdleBatch
    /\ IdleGender
    /\ IdleCopyEdit
    /\ IdleLater

NextRun ==
    \/ TogglePause
    \/ StopTranslation
    \/ RunTranslation
    \/ LoopTop
    \/ PauseCheckpoint
    \/ CallWait
    \/ WaitReturns
    \/ RecheckCancel
    \/ BeginChapter
    \/ TranslateReturns
    \/ RetryReturns
    \/ StartProofing
    \/ NonEnglishFile
    \/ ProofWaitReturns
    \/ NonEnglishRead
    \/ NonEnglishBatch
    \/ StartGender
    \/ GenderFile
    \/ AIFile
    \/ Finally

SpecRun == InitRun /\ [][NextRun]_vars

\* a run starts: the worker leaves the idle state
RunStarts == w.pc = "idle" /\ w'.pc # "idle"

\* C36: every run starts with the cancel flag false and the pause signal
\* set, whatever presses of Pause, Resume and Stop and whatever run
\* completions came before it, presses made while no run is active included.
C36_RunStartsWithFreshFlags ==
    [][RunStarts => (~cancel_requested' /\ pause_event')]_vars

(***************************************************************************)
(* Pass 3 of main_ph on one output file: main reads the file, calls        *)
(* Proofreader.proofread_with_ai and writes what comes back when it        *)
(* differs from what it read.                                              *)
(***************************************************************************)
\* line_difference > 10 keeps the original
MaxLineDifference == 10

\* max_retries of Proofreader.proofread_with_ai
ProofMaxRetries == 3

FileTexts == {TextOf(n, "translator") : n \in 0..MaxLines}

\* response.text: the edited chapter (possibly the chapter itself, possibly
\* nothing), followed or not by "Explanation: ..."
Responses(content) ==
    [edited : {content} \cup {TextOf(n, "model") : n \in 0..MaxLines},
     explanation : BOOLEAN]

\* the part before "Explanation:", or the whole response, stripped
ProofedText(response) == response.edited

LineDifference(a, b) ==
    IF a.lines >= b.lines THEN a.lines - b.lines ELSE b.lines - a.lines

\* what proofread_with_ai returns once generate_content has returned
ProofreadReturn(file_content, proofed_text) ==
    IF LineDifference(proofed_text, file_content) > MaxLineDifference
    THEN file_content
    ELSE proofed_text

\* main: content = f.read(); proofread_with_ai reads the same file again
AIPassReads ==
    /\ ai.pc = "top"
    /\ ai' = [ai EXCEPT !.pc = "call", !.attempt = 0, !.content = file]
    /\ UNCHANGED file
    /\ UNCHANGED notProof

\* proofread_model.generate_content(full_prompt) returns a response
GenerateContentReturns ==
    /\ ai.pc = "call"
    /\ \E response \in Responses(ai.content) :
          ai' = [ai EXCEPT !.pc = "returned",
                           !.proofed_content =
                               ProofreadReturn(ai.content, ProofedText(response))]
    /\ UNCHANGED file
    /\ UNCHANGED notProof

\* generate_content (or response.text) raises: a quota error is retried
\* while attempts remain, any other error ends the loop; the file's
\* content is returned when the loop is left
GenerateContentRaises ==
    /\ ai.pc = "call"
    /\ \E error \in {"quota", "other"} :
          IF error = "quota" /\ ai.attempt + 1 < ProofMaxRetries
          THEN ai' = [ai EXCEPT !.attempt = @ + 1]
          ELSE ai' = [ai EXCEPT !.pc = "returned", !.attempt = @ + 1,
                                !.proofed_content = ai.content]
    /\ UNCHANGED file
    /\ UNCHANGED notProof

\* main: if proofed_content != content: f.write(proofed_content)
AIPassWrites ==
    /\ ai.pc = "returned"
    /\ ai' = [ai EXCEPT !.pc = "done"]
    /\ file' = IF ai.proofed_content # ai.content THEN ai.proofed_content ELSE file
    /\ UNCHANGED notProof

\* for fname in translated_files: the next output file
AIPassNextFile ==
    /\ ai.pc = "done"
    /\ ai' = [IdleAI EXCEPT !.pc = "top"]
    /\ file' \in FileTexts
    /\ UNCHANGED notProof

InitProof ==
    /\ file \in FileTexts
    /\ ai = [IdleAI EXCEPT !.pc = "top"]
    /\ IdleTranslate
    /\ IdleRun
    /\ IdleBatch
    /\ IdleGender
    /\ IdleCopyEdit
    /\ IdleLater

NextProof ==
    \/ AIPassReads
    \/ GenerateContentReturns
    \/ GenerateContentRaises
    \/ AIPassWrites
    \/ AIPassNextFile

SpecProof == InitProof /\ [][NextProof]_vars

(***************************************************************************)
(* The non-English pass of the new proofreader: batch_retranslate sends    *)
(* the flagged lines in one call, and                                      *)
(* detect_and_log_non_english_sentences puts the answer back in the files. *)
(* A response is a sequence of delimiters and chunks of text.              *)
(***************************************************************************)
DELIMITER == "====TRANS_UNIT_SEP===="
Chunk == "text"

\* max_retries and initial_retry_delay of batch_retranslate
BatchMaxRetries == 4
BatchInitialRetryDelay == 60

\* response.text, already stripped
BatchResponses == SeqsUpTo({DELIMITER, Chunk}, 2 * MaxFlagged + 1)

\* if raw.startswith(DELIMITER): raw = raw[len(DELIMITER):]
StripLeading(raw) ==
    IF raw # <<>> /\ Head(raw) = DELIMITER THEN Tail(raw) ELSE raw

\* if raw.endswith(DELIMITER): raw = raw[:-len(DELIMITER)]
StripTrailing(raw) ==
    IF raw # <<>> /\ raw[Len(raw)] = DELIMITER
    THEN SubSeq(raw, 1, Len(raw) - 1) ELSE raw

\* raw.split(DELIMITER): one more segment than there are delimiters
RECURSIVE Split(_)
Split(raw) ==
    IF \A i \in 1..Len(raw) : raw[i] # DELIMITER
    THEN <<raw>>
    ELSE LET i == CHOOSE i \in 1..Len(raw) :
                      /\ raw[i] = DELIMITER
                      /\ \A j \in 1..(i - 1) : raw[j] # DELIMITER
         IN  <<SubSeq(raw, 1, i - 1)>> \o Split(SubSeq(raw, i + 1, Len(raw)))

OutputLines(response) == Split(StripTrailing(StripLeading(response)))

AnyCountAccepted(output_lines, lines) == TRUE

\* `if len(output_lines) != len(lines): ... continue`, negated
CountMatches(output_lines, lines) == Len(output_lines) = Len(lines)

OriginalLines(n) == [i \in 1..n |-> <<"original", i>>]

\* for (fname, idx, orig), fixed in zip(global_flagged, fixed_lines):
\*     lines[idx] = fixed
Replaced(flagged, fixed_lines) ==
    [i \in 1..Len(flagged) |->
        IF i <= Len(fixed_lines) THEN <<"fixed", fixed_lines[i]>> ELSE flagged[i]]

\* the attempt failed: the for loop takes the next attempt, or ends and
\* batch_retranslate returns None
BatchAttemptFailed(kind, response, slept) ==
    nb' = [nb EXCEPT
             !.attempt = @ + 1,
             !.last = kind,
             !.response = response,
             !.sleeps = IF slept /\ nb.attempt < BatchMaxRetries - 1
                        THEN Append(@, BatchInitialRetryDelay * (2 ^ nb.attempt))
                        ELSE @,
             !.pc = IF nb.attempt + 1 < BatchMaxRetries THEN "call" ELSE "returned",
             !.fixed_lines = "None"]

\* call_with_timeout hands back a response
BatchCallReturns ==
    /\ nb.pc = "call"
    /\ \E response \in BatchResponses :
          IF response = <<>>
          THEN BatchAttemptFailed("empty", response, FALSE)
          ELSE IF ~CountMatches(OutputLines(response), file_lines)
          THEN BatchAttemptFailed("mismatch", response, FALSE)
          ELSE nb' = [nb EXCEPT !.pc = "returned", !.last = "ok",
                                !.response = response,
                                !.fixed_lines = OutputLines(response)]
    /\ UNCHANGED file_lines
    /\ UNCHANGED notBatch

\* call_with_timeout reports a timeout or an exception of the call, or
\* reading response.text raises: wait retry_delay unless it was the last attempt
BatchCallFails ==
    /\ nb.pc = "call"
    /\ \E kind \in {"timeout", "error", "raised"} :
          BatchAttemptFailed(kind, nb.response, TRUE)
    /\ UNCHANGED file_lines
    /\ UNCHANGED notBatch

\* detect_and_log_non_english_sentences after the call: nothing is touched
\* when fixed_lines is None, otherwise the lines are replaced and written
BatchApplied ==
    /\ nb.pc = "returned"
    /\ nb' = [nb EXCEPT !.pc = "done"]
    /\ file_lines' = IF nb.fixed_lines = "None" THEN file_lines
                     ELSE Replaced(file_lines, nb.fixed_lines)
    /\ UNCHANGED notBatch

InitBatch ==
    /\ \E n \in 1..MaxFlagged : file_lines = OriginalLines(n)
    /\ nb = [pc |-> "call", attempt |-> 0, sleeps |-> <<>>, response |-> <<>>,
             last |-> "none", fixed_lines |-> "None"]
    /\ IdleTranslate
    /\ IdleRun
    /\ IdleProof
    /\ IdleGender
    /\ IdleCopyEdit
    /\ IdleLater

NextBatch ==
    \/ BatchCallReturns
    \/ BatchCallFails
    \/ BatchApplied

SpecBatch == InitBatch /\ [][NextBatch]_vars

(***************************************************************************)
(* proof_gender_pronouns (proofing/gender_proofing.py) on one text.        *)
(***************************************************************************)
\* max_retries and retry_delay of proof_gender_pronouns
GenderMaxRetries == 3
GenderRetryDelay == 60

\* the values a caller passes for max_retries (the wrapper in
\* proofing/proofing.py forwards **kwargs); the default is among them
GenderRetryBudgets == 1..MaxGenderRetries

\* the floor of max(5, 0.2 * len(orig_lines))
MinResultLines == 5

GenderTexts == {TextOf(n, "translator") : n \in 0..MaxGenderLines}

\* response.text: nothing, blanks only, one of the "no changes" phrases, or
\* a corrected text
NothingResponse == [lines |-> 0, by |-> "nothing"]
BlankResponse == [lines |-> 0, by |-> "blank"]
NoChangesPhrase == [lines |-> 1, by |-> "phrase"]
GenderResponses ==
    {NothingResponse, BlankResponse, NoChangesPhrase}
        \cup {TextOf(n, "model") : n \in 1..MaxGenderLines}

\* result = response.text.strip()
Stripped(response) ==
    IF response \in {NothingResponse, BlankResponse} THEN EmptyText ELSE response

ShorterThanFive(result_lines, orig_lines) == result_lines < MinResultLines

\* len(result_lines) < max(5, 0.2 * len(orig_lines))
TooShort(result_lines, orig_lines) ==
    result_lines < MinResultLines \/ 5 * result_lines < orig_lines

\* what proof_gender_pronouns returns once the call has handed back a response
GenderReturn(txt, response) ==
    LET result == Stripped(response)
    IN  IF response = NothingResponse THEN txt
        ELSE IF result = EmptyText THEN txt
        ELSE IF result = NoChangesPhrase THEN txt
        ELSE IF TooShort(result.lines, txt.lines) THEN txt
        ELSE result

\* `if not text.strip(): return text`, otherwise the first attempt begins
GenderStart ==
    /\ gp.pc = "start"
    /\ IF gp.text = EmptyText
       THEN gp' = [gp EXCEPT !.pc = "returned", !.result = gp.text]
       ELSE gp' = [gp EXCEPT !.pc = "call", !.attempt = 0,
                             !.retry_delay = GenderRetryDelay * (2 ^ 0)]
    /\ UNCHANGED notGender

\* call_with_timeout hands back a response
GenderCallReturns ==
    /\ gp.pc = "call"
    /\ \E response \in GenderResponses :
          gp' = [gp EXCEPT !.pc = "returned", !.response = response,
                           !.result = GenderReturn(gp.text, response)]
    /\ UNCHANGED notGender

\* a timeout or an exception: wait retry_delay unless it was the last
\* attempt; the next attempt multiplies retry_delay by 2 ** attempt; after
\* the last attempt the original text is returned
GenderCallFails ==
    /\ gp.pc = "call"
    /\ IF gp.attempt < gp.max_retries - 1
       THEN gp' = [gp EXCEPT !.attempt = @ + 1,
                             !.sleeps = Append(@, gp.retry_delay),
                             !.retry_delay = @ * (2 ^ (gp.attempt + 1))]
       ELSE gp' = [gp EXCEPT !.pc = "returned", !.attempt = @ + 1,
                             !.result = gp.text]
    /\ UNCHANGED notGender

\* the caller's next text
GenderNextText ==
    /\ gp.pc = "returned"
    /\ \E txt \in GenderTexts, max_retries \in GenderRetryBudgets :
          gp' = [pc |-> "start", max_retries |-> max_retries, attempt |-> 0,
                 retry_delay |-> 0, sleeps |-> <<>>, text |-> txt,
                 response |-> EmptyText, result |-> EmptyText]
    /\ UNCHANGED notGender

InitGender ==
    /\ \E txt \in GenderTexts, max_retries \in GenderRetryBudgets :
          gp = [pc |-> "start", max_retries |-> max_retries, attempt |-> 0,
                retry_delay |-> 0, sleeps |-> <<>>, text |-> txt,
                response |-> EmptyText, result |-> EmptyText]
    /\ IdleTranslate
    /\ IdleRun
    /\ IdleProof
    /\ IdleBatch
    /\ IdleCopyEdit
    /\ IdleLater

NextGender ==
    \/ GenderStart
    \/ GenderCallReturns
    \/ GenderCallFails
    \/ GenderNextText

SpecGender == InitGender /\ [][NextGender]_vars

\* C38: for every max_retries, the waits between consecutive failed attempts
\* of proof_gender_pronouns are retry_delay, 2 * retry_delay,
\* 4 * retry_delay, ...: a geometric sequence of ratio 2.
C38_WaitsDoubleFromRetryDelay ==
    \A i \in DOMAIN gp.sleeps : gp.sleeps[i] = GenderRetryDelay * (2 ^ (i - 1))

(***************************************************************************)
(* The final AI pass of translationManager on one output file:             *)
(* run_proofing_phase calls proofread_with_ai (proofing/ai_proofreader.py) *)
(* and writes what comes back when it is not empty.                        *)
(***************************************************************************)
\* max_retries and initial_retry_delay of proofread_with_ai
AIMaxRetries == 3
AIInitialRetryDelay == 60

\* line_difference > 10 keeps the original
AIMaxLineDifference == 10

\* retry_delay = initial_retry_delay * (2.5 ** attempt)
AIRetryDelay(n) == (AIInitialRetryDelay * (5 ^ n)) \div (2 ^ n)

\* response.text: the edited chapter (possibly the chapter itself, possibly
\* nothing), wrapped or not in the two marker lines of the prompt, followed
\* or not by "Explanation: ..."
AIResponses(content) ==
    [edited : {content} \cup {TextOf(n, "model") : n \in 0..MaxLines},
     markers : BOOLEAN,
     explanation : BOOLEAN]

\* proofed_text: the part before "Explanation:", stripped, with the two
\* markers replaced by "" and stripped again
WithoutMarkers(response) == response.edited

AlwaysTheEditedText(file_content, proofed_text) == proofed_text

\* `if line_difference > 10: return file_content`, else `return proofed_text`
AIProofreadReturn(file_content, proofed_text) ==
    IF LineDifference(proofed_text, file_content) > AIMaxLineDifference
    THEN file_content
    ELSE proofed_text

\* proofread_with_ai reads the file and begins its first attempt
CopyEditReads ==
    /\ ce.pc = "top"
    /\ ce' = [ce EXCEPT !.pc = "call", !.content = file]
    /\ UNCHANGED file
    /\ UNCHANGED notCopyEdit

\* call_with_timeout hands back a response
CopyEditCallReturns ==
    /\ ce.pc = "call"
    /\ \E response \in AIResponses(ce.content) :
          ce' = [ce EXCEPT !.pc = "returned", !.answered = TRUE,
                           !.edited = WithoutMarkers(response),
                           !.ai_proofed =
                               AIProofreadReturn(ce.content, WithoutMarkers(response))]
    /\ UNCHANGED file
    /\ UNCHANGED notCopyEdit

\* call_with_timeout reports a timeout or an exception of the call
\* (`continue`: after the last attempt the function falls off its end), or
\* reading response.text raises (the last attempt returns file_content)
CopyEditCallFails ==
    /\ ce.pc = "call"
    /\ \E kind \in {"not_success", "raised"} :
          IF ce.attempt < AIMaxRetries - 1
          THEN ce' = [ce EXCEPT !.attempt = @ + 1,
                                !.sleeps = Append(@, AIRetryDelay(ce.attempt))]
          ELSE ce' = [ce EXCEPT !.pc = "returned", !.attempt = @ + 1,
                                !.ai_proofed = IF kind = "raised" THEN ce.content
                                               ELSE NoText]
    /\ UNCHANGED file
    /\ UNCHANGED notCopyEdit

\* run_proofing_phase: if ai_proofed: f.write(ai_proofed)
CopyEditWrites ==
    /\ ce.pc = "returned"
    /\ ce' = [ce EXCEPT !.pc = "done"]
    /\ file' = IF ce.ai_proofed.lines > 0 THEN ce.ai_proofed ELSE file
    /\ UNCHANGED notCopyEdit

\* for fname in translated_files: the next output file
CopyEditNextFile ==
    /\ ce.pc = "done"
    /\ ce' = [pc |-> "top", attempt |-> 0, sleeps |-> <<>>, content |-> EmptyText,
              answered |-> FALSE, edited |-> EmptyText, ai_proofed |-> NoText]
    /\ file' \in FileTexts
    /\ UNCHANGED notCopyEdit

InitCopyEdit ==
    /\ file \in FileTexts
    /\ ai = IdleAI
    /\ ce = [pc |-> "top", attempt |-> 0, sleeps |-> <<>>, content |-> EmptyText,
             answered |-> FALSE, edited |-> EmptyText, ai_proofed |-> NoText]
    /\ IdleTranslate
    /\ IdleRun
    /\ IdleBatch
    /\ IdleGender
    /\ IdleLater

NextCopyEdit ==
    \/ CopyEditReads
    \/ CopyEditCallReturns
    \/ CopyEditCallFails
    \/ CopyEditWrites
    \/ CopyEditNextFile

SpecCopyEdit == InitCopyEdit /\ [][NextCopyEdit]_vars

(***************************************************************************)
(* Claims about the run (SpecRun).                                         *)
(***************************************************************************)
ChapterUnderWay == w.pc \in {"tr_begin", "tr_translating", "tr_retry"}

\* C4: if Stop is pressed while the translation loop is blocked on the
\* pause signal before chapter i, then once unblocked the loop starts
\* neither chapter i nor any later chapter.
C4_StopWhileBlockedStartsNoChapter == hist.stopWhileBlocked => ~ChapterUnderWay

\* C5: when the pause signal is cleared at the checkpoint before a chapter,
\* that chapter is not started until the signal has been set again.
C5_ClearedPauseHoldsChapter == ChapterUnderWay => hist.setSeen

\* C6: once the cancel flag has been detected at a chapter checkpoint of the
\* translation phase, no further model call of any kind is issued before
\* main returns.
C6_NoModelCallAfterCancelSeen == ~hist.callAfterCancel

\* C9 (as stated): whenever translate returns None for chapter i, no output
\* file is written for chapter i, the failure is logged and the loop goes on
\* to chapter i+1.
C9_NoneWritesNothing ==
    hist.last = "None" =>
        /\ ~hist.wrote
        /\ hist.logged
        /\ w.idx > hist.chapter

\* C9 (amended): when the first translate call for chapter i returns None, no
\* output file is written for chapter i; when a size-deviation retry returns
\* None, the first translation is written.  Either way the failure is logged
\* and the loop goes on to chapter i+1.
C9_FirstNoneWritesNothing ==
    hist.last = "None" =>
        /\ hist.wrote <=> hist.call = "retry"
        /\ hist.wrote => out[hist.chapter] = "first"
        /\ hist.logged
        /\ w.idx > hist.chapter

\* chapter i failed on its first call and chapter i+1 is being translated
C9_Witness ==
    /\ hist.last = "None"
    /\ hist.call = "first"
    /\ w.pc = "tr_translating"
    /\ w.idx = hist.chapter + 1

\* C21: once the translation loop has detected the cancel flag, the output
\* file of every chapter completed before that keeps its content for the
\* rest of the run.
C21_CompletedChaptersKeptAfterCancel ==
    [][hist.cancelSeen =>
         \A c \in Chapters :
            out[c] \in {"first", "retry", "copy"} => out'[c] = out[c]]_vars

(***************************************************************************)
(* Claims about the AI copy-edit pass (SpecProof).                         *)
(***************************************************************************)
\* C10: no proofing pass replaces the content of a non-empty output file
\* with empty text; when the model's response is empty or reduces to empty,
\* the file keeps its prior content.
C10_NonEmptyFileStaysNonEmpty ==
    (ai.pc = "done" /\ ai.content # EmptyText) => file # EmptyText

(***************************************************************************)
(* Claims about the non-English batch (SpecBatch).                         *)
(***************************************************************************)
\* C11: a response whose number of delimited segments differs from the
\* number of lines sent is never applied, not even in part; the attempt
\* counts as failed and is retried; after max_retries failed attempts
\* batch_retranslate returns None and every output file is left unchanged.
C11_MismatchNeverApplied ==
    LET n == Len(file_lines)
    IN  /\ nb.last = "mismatch" =>
              /\ Len(OutputLines(nb.response)) # n
              /\ file_lines = OriginalLines(n)
              /\ nb.attempt >= 1
              /\ \/ nb.pc = "call" /\ nb.attempt < BatchMaxRetries
                 \/ nb.pc # "call" /\ nb.attempt = BatchMaxRetries
        /\ file_lines # OriginalLines(n) =>
              /\ Len(OutputLines(nb.response)) = n
              /\ file_lines = Replaced(OriginalLines(n), OutputLines(nb.response))
        /\ (nb.pc # "call" /\ nb.fixed_lines = "None") =>
              /\ nb.attempt = BatchMaxRetries
              /\ file_lines = OriginalLines(n)

\* the last of max_retries attempts got a response with too few segments
\* and the caller has returned
C11_Witness ==
    /\ nb.pc = "done"
    /\ nb.last = "mismatch"
    /\ Len(OutputLines(nb.response)) < Len(file_lines)
    /\ nb.attempt = BatchMaxRetries

(***************************************************************************)
(* Claims about proof_gender_pronouns (SpecGender).                        *)
(***************************************************************************)
GenderAnswered == gp.pc = "returned" /\ gp.response # EmptyText

\* C12: proof_gender_pronouns returns the original text unchanged whenever
\* the model's corrected text is empty, is a known "no changes" phrase, or
\* has fewer than max(5, 20% of the original's line count) lines; a response
\* with fewer than 20% of the original's lines never replaces the original.
C12_RejectedResponseKeepsOriginal ==
    GenderAnswered =>
        LET result == Stripped(gp.response)
        IN  (\/ result = EmptyText
             \/ result = NoChangesPhrase
             \/ result.lines < 5
             \/ 5 * result.lines < gp.text.lines) => gp.result = gp.text

\* a response of five lines or more, but fewer than 20% of the original's
C12_Witness ==
    /\ GenderAnswered
    /\ gp.response.lines >= 5
    /\ 5 * gp.response.lines < gp.text.lines
    /\ gp.result = gp.text

(***************************************************************************)
(* Claims about the final AI pass of translationManager (SpecCopyEdit).    *)
(***************************************************************************)
\* C13: whenever the line count of the model's edited text differs from the
\* line count of the input file by more than 10, the output file keeps
\* exactly its original content.
C13_LargeLineDifferenceKeepsFile ==
    (/\ ce.pc = "done"
     /\ ce.answered
     /\ LineDifference(ce.edited, ce.content) > 10) => file = ce.content

\* a non-empty file, an answer more than 10 lines shorter, the pass is over
C13_Witness ==
    /\ ce.pc = "done"
    /\ ce.answered
    /\ ce.content.lines > ce.edited.lines + 10
    /\ ce.edited.lines > 0
    /\ file = ce.content

(***************************************************************************)
(* The glossary: Glossary.normalize_term, Glossary.build_glossary and      *)
(* split_glossary.  A term is a sequence of characters; the master         *)
(* glossary is the sequence of the lines between the START and END markers *)
(* of the file, as splitlines() returns them.  A line with parts = 3 reads *)
(* "term => meaning => gender"; a line with parts = 1 holds no "=>".       *)
(***************************************************************************)
MaxCandidates == 2   \* candidate lines in one model response

CR == "\r"
\* U+FF21 and U+FF41, the full-width forms of A and a: \w matches both
FullWidthA == "FULLWIDTH LATIN CAPITAL LETTER A"
FullWidthSmallA == "FULLWIDTH LATIN SMALL LETTER A"
Letters == {"a", "A", "b", "B", FullWidthA, FullWidthSmallA}
Whitespace == {" ", CR}       \* what \s matches
LineBreaks == {CR}            \* where str.splitlines() cuts

Lower(c) ==
    CASE c = "A" -> "a"
      [] c = "B" -> "b"
      [] c = FullWidthA -> FullWidthSmallA
      [] OTHER -> c

\* re.sub(r'[^\w\s]', '', s)
RemoveSymbols(s) == SelectSeq(s, LAMBDA c : c \in Letters \cup Whitespace)

RECURSIVE LStrip(_)
LStrip(s) ==
    IF s # <<>> /\ Head(s) \in Whitespace THEN LStrip(Tail(s)) ELSE s

RECURSIVE RStrip(_)
RStrip(s) ==
    IF s # <<>> /\ s[Len(s)] \in Whitespace
    THEN RStrip(SubSeq(s, 1, Len(s) - 1))
    ELSE s

Strip(s) == RStrip(LStrip(s))

LowerCase(s) == [i \in 1..Len(s) |-> Lower(s[i])]

\* re.sub(r'\s+', ' ', s)
RECURSIVE CollapseWhitespace(_)
CollapseWhitespace(s) ==
    IF s = <<>> THEN <<>>
    ELSE IF Head(s) \in Whitespace
         THEN <<" ">> \o CollapseWhitespace(LStrip(s))
         ELSE <<Head(s)>> \o CollapseWhitespace(Tail(s))

normalize_term(term) ==
    CollapseWhitespace(LowerCase(Strip(RemoveSymbols(term))))

\* str.splitlines(): cur is the line being collected
RECURSIVE SplitLines(_, _)
SplitLines(s, cur) ==
    IF s = <<>> THEN (IF cur = <<>> THEN <<>> ELSE <<cur>>)
    ELSE IF Head(s) \in LineBreaks
         THEN <<cur>> \o SplitLines(Tail(s), <<>>)
         ELSE SplitLines(Tail(s), Append(cur, Head(s)))

Junk(piece) == [parts |-> 1, term |-> piece, meaning |-> ""]
Entry(term, meaning) == [parts |-> 3, term |-> term, meaning |-> meaning]

\* the lines the file holds once the string e has been written to it
LinesOf(e) ==
    IF e.parts # 3 THEN <<e>>
    ELSE LET pieces == SplitLines(Append(e.term, "=>"), <<>>)
             n == Len(pieces)
         IN  [i \in 1..n |->
                IF i < n THEN Junk(pieces[i])
                ELSE Entry(SubSeq(pieces[n], 1, Len(pieces[n]) - 1), e.meaning)]

RECURSIVE FileLines(_)
FileLines(entries) ==
    IF entries = <<>> THEN <<>>
    ELSE LinesOf(Head(entries)) \o FileLines(Tail(entries))

\* [line for line in middle.splitlines() if line.strip()]
NonBlank(lines) ==
    SelectSeq(lines, LAMBDA l : l.parts = 3 \/ Strip(l.term) # <<>>)

\* what the model can put before the first "=>" of a line
GlossaryTerms ==
    { <<"a">>, <<"A">>, <<"a", "-">>, <<"b">>, <<"-">>,
      <<"a", " ", "b">>, <<"a", " ", " ", "b">>, <<"a", CR, "b">> }
Meanings == {"X"}

SeqsOfLen(S, n) == [1..n -> S]
GlossaryResponses ==
    UNION { SeqsOfLen([term : GlossaryTerms, meaning : Meanings], n) :
              n \in 1..MaxCandidates }

\* build_glossary 165-174: the candidate entries of a response
RECURSIVE GlossaryEntries(_)
GlossaryEntries(response) ==
    IF response = <<>> THEN <<>>
    ELSE LET term == RemoveSymbols(Strip(Head(response).term))
             rest == GlossaryEntries(Tail(response))
         IN  IF term # <<>>
             THEN <<Entry(term, Head(response).meaning)>> \o rest
             ELSE rest

\* build_glossary 181-185
ExistingOriginalTerms(existing_glossary) ==
    { normalize_term(existing_glossary[i].term) :
        i \in { j \in DOMAIN existing_glossary : existing_glossary[j].parts = 3 } }

\* build_glossary 188-195
RECURSIVE UpdatedEntries(_, _)
UpdatedEntries(glossary_entries, existing_original_terms) ==
    IF glossary_entries = <<>> THEN <<>>
    ELSE LET entry == Head(glossary_entries)
             key == normalize_term(Strip(entry.term))
         IN  IF key \notin existing_original_terms
             THEN <<entry>> \o UpdatedEntries(Tail(glossary_entries),
                                              existing_original_terms \cup {key})
             ELSE UpdatedEntries(Tail(glossary_entries), existing_original_terms)

\* build_glossary 211-216
RECURSIVE UniqueEntries(_, _)
UniqueEntries(all_entries, seen) ==
    IF all_entries = <<>> THEN <<>>
    ELSE IF Head(all_entries) \in seen
         THEN UniqueEntries(Tail(all_entries), seen)
         ELSE <<Head(all_entries)>>
                \o UniqueEntries(Tail(all_entries), seen \cup {Head(all_entries)})

\* the master file after build_glossary got this response
MasterAfter(master, response) ==
    LET existing_glossary == NonBlank(master)
        updated_entries ==
            UpdatedEntries(GlossaryEntries(response),
                           ExistingOriginalTerms(existing_glossary))
    IN  IF updated_entries = <<>> THEN master
        ELSE FileLines(UniqueEntries(existing_glossary \o updated_entries, {}))

\* split_glossary 34-49
NameEntries(master) ==
    LET named == SelectSeq(master, LAMBDA l : l.parts >= 2)
    IN  [i \in 1..Len(named) |->
           [non_english |-> Strip(named[i].term), english |-> named[i].meaning]]

ContextEntries(master) ==
    LET whole == SelectSeq(master, LAMBDA l : l.parts >= 3)
    IN  [i \in 1..Len(whole) |-> [english |-> whole[i].meaning, gender |-> "he"]]

\* open(path, "w") followed by the writes
AppendedTo(old, entries) == old \o entries
WrittenOver(old, entries) == entries

SplitFiles(g) ==
    [g EXCEPT !.names = WrittenOver(g.names, NameEntries(g.master)),
              !.contexts = WrittenOver(g.contexts, ContextEntries(g.master))]

\* what build_glossary can be handed: the three-field lines of the response
\* (<<>> when it is empty or has none), and whether the text holds the
\* sentence "No named entities found"
GlossaryAnswers ==
    GlossaryResponses
      \cup {<<>>, <<[term |-> <<>>, meaning |-> "X"]>>,
               <<[term |-> <<" ">>, meaning |-> "X"]>>}

\* build_glossary 160-162 and 176-178: return "" with no file opened for
\* writing and with split_glossary not called
ReturnsAfterSplit(g) == SplitFiles(g)
ReturnsAtOnce(g) == g

\* build_glossary 160 and 176
NoNewTerms(response, sentinel) ==
    \/ response = <<>>
    \/ sentinel
    \/ GlossaryEntries(response) = <<>>

\* the response has no line with a non-empty term and meaning
NothingToExtract(response, sentinel) ==
    \/ response = <<>>
    \/ sentinel
    \/ \A i \in DOMAIN response : Strip(response[i].term) = <<>>

LastBuild(response, sentinel) ==
    IF NothingToExtract(response, sentinel) THEN "nothing found" ELSE "build"

\* build_glossary returns entries; split_glossary is the keyword argument
BuildGlossary ==
    \E response \in GlossaryResponses, split_glossary \in BOOLEAN :
        LET built == [gl EXCEPT !.master = MasterAfter(gl.master, response),
                                !.last = LastBuild(response, FALSE)]
        IN  /\ ~NoNewTerms(response, FALSE)
            /\ gl' = IF split_glossary THEN SplitFiles(built) ELSE built
            /\ UNCHANGED notGlossary

\* the response is empty, says "No named entities found", or holds no valid
\* line: build_glossary returns "" before it touches any file
BuildGlossaryNothingFound ==
    \E response \in GlossaryAnswers, sentinel \in BOOLEAN :
        /\ NoNewTerms(response, sentinel)
        /\ gl' = [ReturnsAtOnce(gl) EXCEPT !.last = LastBuild(response, sentinel)]
        /\ UNCHANGED notGlossary

\* generate_content raises on both attempts
BuildGlossaryExhausted ==
    /\ gl' = [gl EXCEPT !.last = "build"]
    /\ UNCHANGED notGlossary

\* split_glossary called by the driver after the chapters
SplitGlossary ==
    /\ gl' = [SplitFiles(gl) EXCEPT
                 !.last = IF gl.last \in {"split", "split again"}
                          THEN "split again" ELSE "split"]
    /\ UNCHANGED notGlossary

InitGlossary ==
    /\ IdleGlossary
    /\ IdleOrder
    /\ IdlePhases
    /\ IdleLinePass
    /\ IdleCalls
    /\ IdleFunctions
    /\ IdleTranslate
    /\ IdleRun
    /\ IdleProof
    /\ IdleBatch
    /\ IdleGender
    /\ IdleCopyEdit

NextGlossary ==
    \/ BuildGlossary
    \/ BuildGlossaryNothingFound
    \/ BuildGlossaryExhausted
    \/ SplitGlossary

SpecGlossary == InitGlossary /\ [][NextGlossary]_vars

MasterEntries == { i \in DOMAIN gl.master : gl.master[i].parts = 3 }

\* C14: after any sequence of build_glossary calls from an empty glossary, no
\* two entries of the master glossary have originals with the same
\* normalize_term value.
C14_NoSharedNormalizedOriginal ==
    \A i, j \in MasterEntries :
        i # j => normalize_term(gl.master[i].term) # normalize_term(gl.master[j].term)

\* C15: a split_glossary call that follows another split_glossary call, with
\* no build_glossary in between, leaves name_glossary.txt and
\* context_glossary.txt exactly as the first call wrote them.
C15_SecondSplitWritesTheSameFiles ==
    [][gl'.last = "split again" =>
         /\ gl'.names = gl.names
         /\ gl'.contexts = gl.contexts
         /\ gl'.master = gl.master]_vars

C15_Witness ==
    /\ gl.last = "split again"
    /\ Len(gl.names) >= 2
    /\ gl.contexts # <<>>

\* C26: when the extraction response is empty, holds the sentence "No named
\* entities found", or has no three-field line with a non-empty term and
\* meaning, build_glossary leaves the master glossary, the name file and the
\* context file as they were.
C26_NothingFoundChangesNoFile ==
    [][gl'.last = "nothing found" =>
         /\ gl'.master = gl.master
         /\ gl'.names = gl.names
         /\ gl'.contexts = gl.contexts]_vars

\* a build that found nothing, over a master that has entries the name file
\* does not hold yet
C26_Witness ==
    /\ gl.last = "nothing found"
    /\ gl.master # <<>>
    /\ Len(gl.names) < Len(NameEntries(gl.master))

EntriesOf(master) == SelectSeq(master, LAMBDA l : l.parts = 3)

IsPrefix(s, t) == Len(s) <= Len(t) /\ SubSeq(t, 1, Len(s)) = s

\* C27: build_glossary is append-only with first-seen-wins: the entries the
\* master glossary held before a call are, unchanged and in the same order,
\* a prefix of the entries it holds after the call.
C27_EarlierEntriesStayAsPrefix ==
    [][gl'.last \in {"build", "nothing found"} =>
         IsPrefix(EntriesOf(gl.master), EntriesOf(gl'.master))]_vars

(***************************************************************************)
(* split_glossary over any master file: the file is plain text that the    *)
(* glossary proofing pass rewrites and a user may edit, so a line can hold *)
(* any number of "=>".  parts is the length of line.split('=>').           *)
(***************************************************************************)
MaxFields == 4       \* most fields in one master line
MaxMasterLines == 2  \* lines between the markers

MasterLines ==
    { Junk(t) : t \in {<<"a">>, <<"b">>} }
      \cup [parts : 2..MaxFields, term : {<<"a">>, <<"b">>}, meaning : Meanings]

MasterFiles == UNION { SeqsOfLen(MasterLines, n) : n \in 0..MaxMasterLines }

InitSplit ==
    /\ \E master \in MasterFiles :
          gl = [master |-> master, names |-> <<>>, contexts |-> <<>>,
                last |-> "none"]
    /\ IdleEarlier
    /\ IdleOrder
    /\ IdlePhases
    /\ IdleLinePass
    /\ IdleCalls
    /\ IdleFunctions

NextSplit == SplitGlossary

SpecSplit == InitSplit /\ [][NextSplit]_vars

ThreeFieldLines == SelectSeq(gl.master, LAMBDA l : l.parts = 3)

\* C28: split_glossary writes, for each master line with exactly three
\* fields and in master order, one "original => translated" line to the name
\* file and one "translated => gender" line to the context file; every other
\* line of the master contributes nothing to either file.
C28_OnlyThreeFieldLinesAreSplit ==
    gl.last \in {"split", "split again"} =>
        /\ gl.names =
              [i \in 1..Len(ThreeFieldLines) |->
                 [non_english |-> Strip(ThreeFieldLines[i].term),
                  english |-> ThreeFieldLines[i].meaning]]
        /\ gl.contexts =
              [i \in 1..Len(ThreeFieldLines) |->
                 [english |-> ThreeFieldLines[i].meaning, gender |-> "he"]]

(***************************************************************************)
(* The order of the chapter files.  A file name is the sequence            *)
(* "chapter_", the decimal digits of its ordinal, ".txt"; main() sorts the *)
(* listing of input/ and both phases walk text_files front to back.        *)
(***************************************************************************)
MaxOrdinal == 10     \* largest chapter ordinal in input/

Ordinals == 1..MaxOrdinal
DigitChars == <<"0", "1", "2", "3", "4", "5", "6", "7", "8", "9">>
IsDigit(c) == \E d \in DOMAIN DigitChars : DigitChars[d] = c
DigitValue(c) == (CHOOSE d \in DOMAIN DigitChars : DigitChars[d] = c) - 1

RECURSIVE Digits(_)
Digits(n) ==
    IF n < 10 THEN <<DigitChars[n + 1]>>
    ELSE Digits(n \div 10) \o <<DigitChars[(n % 10) + 1]>>

FileName(n) == <<"chapter_">> \o Digits(n) \o <<".txt">>

\* the code point a piece of a file name starts with
Code(c) ==
    IF IsDigit(c) THEN 48 + DigitValue(c)
    ELSE IF c = ".txt" THEN 46
    ELSE 99

\* str.__lt__
RECURSIVE StrLess(_, _)
StrLess(a, b) ==
    IF b = <<>> THEN FALSE
    ELSE IF a = <<>> THEN TRUE
    ELSE IF Code(Head(a)) # Code(Head(b)) THEN Code(Head(a)) < Code(Head(b))
    ELSE StrLess(Tail(a), Tail(b))

\* int(s)
RECURSIVE IntOf(_)
IntOf(s) ==
    IF s = <<>> THEN 0 ELSE 10 * IntOf(SubSeq(s, 1, Len(s) - 1)) + DigitValue(s[Len(s)])

RECURSIVE DigitRun(_)
DigitRun(s) ==
    IF s = <<>> \/ ~IsDigit(Head(s)) THEN <<>>
    ELSE <<Head(s)>> \o DigitRun(Tail(s))

\* re.search(r'\d+', filename)
RECURSIVE FirstDigits(_)
FirstDigits(s) ==
    IF s = <<>> THEN <<>>
    ELSE IF IsDigit(Head(s)) THEN DigitRun(s)
    ELSE FirstDigits(Tail(s))

\* main_ph.numeric_key; float('inf') is above every ordinal
numeric_key(filename) ==
    LET match == FirstDigits(filename)
    IN  IF match = <<>> THEN MaxOrdinal + 1 ELSE IntOf(match)

\* PH.natural_sort_key: [text, int, text] with the same texts in every name
natural_sort_key(filename) == IntOf(FirstDigits(filename))

OrderVariants == {"main_ph", "translationManager", "PH"}

\* a sorts before b under the key the variant hands to sorted()
SortsBefore(variant, a, b) ==
    CASE variant = "main_ph" -> numeric_key(a) < numeric_key(b)
      [] variant = "PH" -> natural_sort_key(a) < natural_sort_key(b)
      [] OTHER -> StrLess(a, b)

RECURSIVE Sorted(_, _)
Sorted(variant, files) ==
    IF files = {} THEN <<>>
    ELSE LET first == CHOOSE f \in files :
                        \A g \in files \ {f} : SortsBefore(variant, f, g)
         IN  <<first>> \o Sorted(variant, files \ {first})

\* main(): list input/ and sort the names
SortInputFiles ==
    /\ fo.pc = "start"
    /\ fo' = [fo EXCEPT !.text_files = Sorted(fo.variant, fo.input_files),
                        !.pc = IF fo.variant = "PH" THEN "translate" ELSE "glossary"]
    /\ UNCHANGED notOrder

NextToProcess == fo.text_files[Len(fo.processed) + 1]

\* run_glossary_phase: one turn of the loop
GlossaryNext ==
    /\ fo.pc = "glossary"
    /\ Len(fo.processed) < Len(fo.text_files)
    /\ fo' = [fo EXCEPT !.processed = Append(@, NextToProcess)]
    /\ UNCHANGED notOrder

\* the glossary loop is over; the translation phase starts at the first file
StartTranslationPhase ==
    /\ fo.pc = "glossary"
    /\ Len(fo.processed) = Len(fo.text_files)
    /\ fo' = [fo EXCEPT !.pc = "translate", !.processed = <<>>]
    /\ UNCHANGED notOrder

\* run_translation_phase: one turn of the loop
TranslateNext ==
    /\ fo.pc = "translate"
    /\ Len(fo.processed) < Len(fo.text_files)
    /\ fo' = [fo EXCEPT !.processed = Append(@, NextToProcess)]
    /\ UNCHANGED notOrder

InitOrder ==
    /\ fo \in [variant : OrderVariants,
               input_files : { {FileName(n) : n \in S} : S \in (SUBSET Ordinals) \ {{}} },
               pc : {"start"}, text_files : {<<>>}, processed : {<<>>}]
    /\ IdleGlossary
    /\ IdlePhases
    /\ IdleLinePass
    /\ IdleCalls
    /\ IdleFunctions
    /\ IdleTranslate
    /\ IdleRun
    /\ IdleProof
    /\ IdleBatch
    /\ IdleGender
    /\ IdleCopyEdit

NextOrder ==
    \/ SortInputFiles
    \/ GlossaryNext
    \/ StartTranslationPhase
    \/ TranslateNext

SpecOrder == InitOrder /\ [][NextOrder]_vars

\* C16: in the glossary-build phase and in the translation phase the
\* chapters are processed in ascending order of the number in the file name.
C16_AscendingNumericOrder ==
    \A i, j \in DOMAIN fo.processed :
        i < j => IntOf(FirstDigits(fo.processed[i])) < IntOf(FirstDigits(fo.processed[j]))

(***************************************************************************)
(* main(): the phases of one run and, for translationManager, the passes   *)
(* of run_proofing_phase file by file.  No Stop or Pause is pressed here;  *)
(* SpecRun has those.  The output directory holds one file per chapter.    *)
(***************************************************************************)
\* proofing_subphase as the GUI maps the phase selector
Subphases == {"None", "non_english", "consistency", "gender", "final"}

PassOrder == <<"non_english", "gender", "final">>
PassPc(pass) ==
    CASE pass = "non_english" -> "ne_read"
      [] pass = "gender" -> "gender"
      [] OTHER -> "ai"

\* the outcomes of handling one file in a pass
FileOutcomes == {"ok", "unreadable", "unwritable", "model_fails"}

AlwaysRunsEarlierPhases(proofing_only) == TRUE

\* main: if not proofing_only:
RunsEarlierPhases(proofing_only) == ~proofing_only

GlossaryPhaseWheneverInputs(run_translation, skip_phase1) == run_translation

\* main: if run_translation and not skip_phase1:
RunsGlossaryPhase(run_translation, skip_phase1) == run_translation /\ ~skip_phase1

\* run_proofing_phase: the condition in front of each pass
RunsPass(pass, subphase) ==
    CASE pass = "non_english" -> subphase \in {"None", "non_english"}
      [] pass = "gender" -> subphase \in {"None", "gender", "final"}
      [] OTHER -> subphase \in {"None", "final"}

\* run_proofing_phase: if subphase == "...": return
ReturnsAfter(pass, subphase) ==
    pass \in {"non_english", "gender"} /\ subphase = pass

\* run_proofing_phase goes on at pass k of PassOrder
Enter(m, k) ==
    LET later == { i \in k..Len(PassOrder) : RunsPass(PassOrder[i], m.subphase) }
    IN  IF later = {} THEN [m EXCEPT !.pc = "returned"]
        ELSE LET i == CHOOSE i \in later : \A j \in later : i <= j
             IN  [m EXCEPT !.pc = PassPc(PassOrder[i]), !.idx = 1,
                           !.passes = Append(@, PassOrder[i]),
                           !.calls = @ \cup {PassOrder[i]}]

\* pass k of PassOrder is over
Leave(m, k) ==
    IF ReturnsAfter(PassOrder[k], m.subphase)
    THEN [m EXCEPT !.pc = "returned"]
    ELSE Enter(m, k + 1)

\* main() up to the first phase: setup_glossary splits the glossary, the
\* listing of input/ decides run_translation
MainStart ==
    /\ mn.pc = "start"
    /\ LET run_translation == mn.inputs > 0
           m == [mn EXCEPT !.calls = @ \cup {"split_glossary"}, !.idx = 1]
       IN  mn' = IF RunsEarlierPhases(mn.proofing_only)
                 THEN IF RunsGlossaryPhase(run_translation, mn.skip_phase1)
                      THEN [m EXCEPT !.pc = "glossary"]
                      ELSE IF run_translation THEN [m EXCEPT !.pc = "translate"]
                      ELSE [m EXCEPT !.pc = "proofing"]
                 ELSE [m EXCEPT !.pc = "proofing"]
    /\ UNCHANGED notPhases

\* run_glossary_phase, one chapter: build_glossary adds entries, finds
\* nothing new, or the chapter cannot be read (logged)
GlossaryPhaseFile ==
    /\ mn.pc = "glossary"
    /\ mn.idx <= mn.inputs
    /\ \E outcome \in {"added", "nothing", "unreadable"} :
          mn' = [mn EXCEPT
                   !.idx = @ + 1,
                   !.calls = @ \cup
                      CASE outcome = "added" -> {"build_glossary", "master_written"}
                        [] outcome = "nothing" -> {"build_glossary"}
                        [] OTHER -> {}]
    /\ UNCHANGED notPhases

\* run_glossary_phase after its loop: proof_glossary_file and split_glossary
GlossaryPhaseEnds ==
    /\ mn.pc = "glossary"
    /\ mn.idx > mn.inputs
    /\ \E rewritten \in BOOLEAN :
          mn' = [mn EXCEPT
                   !.pc = "translate", !.idx = 1,
                   !.calls = @ \cup {"proof_glossary_file", "split_glossary"}
                               \cup (IF rewritten THEN {"master_written"} ELSE {})]
    /\ UNCHANGED notPhases

\* run_translation_phase, one chapter
TranslationPhaseFile ==
    /\ mn.pc = "translate"
    /\ mn.idx <= mn.inputs
    /\ \E r \in {"None", "text", "raise", "unreadable"} :
          mn' = [mn EXCEPT
                   !.idx = @ + 1,
                   !.visited = @ \cup {mn.idx},
                   !.calls = @ \cup
                      CASE r = "text" -> {"translate", "chapter_written"}
                        [] r = "unreadable" -> {}
                        [] OTHER -> {"translate"}]
    /\ UNCHANGED notPhases

TranslationPhaseEnds ==
    /\ mn.pc = "translate"
    /\ mn.idx > mn.inputs
    /\ mn' = [mn EXCEPT !.pc = "proofing"]
    /\ UNCHANGED notPhases

\* main_ph runs its three passes one after the other; translationManager
\* calls run_proofing_phase with the subphase
ProofingPhaseStarts ==
    /\ mn.pc = "proofing"
    /\ mn' = IF mn.variant = "main_ph"
             THEN [mn EXCEPT !.pc = "returned", !.passes = PassOrder,
                             !.calls = @ \cup {"non_english", "gender", "final"}]
             ELSE Enter(mn, 1)
    /\ UNCHANGED notPhases

\* detect_and_log_non_english_sentences, step 1, one file
NonEnglishReadFile ==
    /\ mn.pc = "ne_read"
    /\ mn.idx <= NumChapters
    /\ \E outcome \in {"ok", "unreadable"}, flagged \in BOOLEAN :
          mn' = IF outcome = "unreadable"
                THEN [mn EXCEPT !.idx = @ + 1,
                                !.caught = @ \cup {"non_english"}]
                ELSE [mn EXCEPT !.idx = @ + 1,
                                !.read = @ \cup {mn.idx},
                                !.flagged = @ \/ flagged]
    /\ UNCHANGED notPhases

\* steps 2 and 3: nothing flagged, or batch_retranslate gave None: return [];
\* otherwise the fixed lines are put in place and step 4 begins
NonEnglishRetranslate ==
    /\ mn.pc = "ne_read"
    /\ mn.idx > NumChapters
    /\ IF ~mn.flagged
       THEN mn' = Leave(mn, 1)
       ELSE \E fixed_lines \in {"None", "lines"} :
               mn' = IF fixed_lines = "None"
                     THEN Leave([mn EXCEPT !.caught = @ \cup {"non_english"}], 1)
                     ELSE [mn EXCEPT !.pc = "ne_write", !.idx = 1]
    /\ UNCHANGED notPhases

\* step 4, one file of file_lines: open(..., "w") stands in no try block
NonEnglishWriteFile ==
    /\ mn.pc = "ne_write"
    /\ mn.idx <= NumChapters
    /\ IF mn.idx \notin mn.read
       THEN mn' = [mn EXCEPT !.idx = @ + 1]
       ELSE \E outcome \in {"ok", "unwritable"} :
               mn' = IF outcome = "unwritable"
                     THEN [mn EXCEPT !.pc = "raised"]
                     ELSE [mn EXCEPT !.idx = @ + 1,
                                     !.calls = @ \cup {"proofed_written"}]
    /\ UNCHANGED notPhases

\* step 4 is over: the log is written and the pass returns
NonEnglishEnds ==
    /\ mn.pc = "ne_write"
    /\ mn.idx > NumChapters
    /\ mn' = Leave(mn, 1)
    /\ UNCHANGED notPhases

\* the gender pass, one file: the whole body stands in try/except
GenderPassFile ==
    /\ mn.pc = "gender"
    /\ mn.idx <= NumChapters
    /\ \E outcome \in FileOutcomes :
          mn' = IF outcome \in {"ok", "model_fails"}
                THEN [mn EXCEPT !.idx = @ + 1,
                                !.calls = @ \cup {"proofed_written"}]
                ELSE [mn EXCEPT !.idx = @ + 1, !.caught = @ \cup {"gender"}]
    /\ UNCHANGED notPhases

GenderPassEnds ==
    /\ mn.pc = "gender"
    /\ mn.idx > NumChapters
    /\ mn' = Leave(mn, 2)
    /\ UNCHANGED notPhases

\* the AI pass, one file: the whole body stands in try/except
AIPassFile ==
    /\ mn.pc = "ai"
    /\ mn.idx <= NumChapters
    /\ \E outcome \in FileOutcomes :
          mn' = IF outcome = "ok"
                THEN [mn EXCEPT !.idx = @ + 1,
                                !.calls = @ \cup {"proofed_written"}]
                ELSE [mn EXCEPT !.idx = @ + 1, !.caught = @ \cup {"final"}]
    /\ UNCHANGED notPhases

AIPassEnds ==
    /\ mn.pc = "ai"
    /\ mn.idx > NumChapters
    /\ mn' = Leave(mn, 3)
    /\ UNCHANGED notPhases

InitPhases ==
    /\ \E variant \in Variants, proofing_only \in BOOLEAN, skip_phase1 \in BOOLEAN,
          subphase \in Subphases, inputs \in 0..NumChapters :
          /\ variant = "main_ph" => subphase = "None"
          /\ mn = [IdleMain EXCEPT !.variant = variant,
                                   !.proofing_only = proofing_only,
                                   !.skip_phase1 = skip_phase1,
                                   !.subphase = subphase,
                                   !.inputs = inputs,
                                   !.pc = "start"]
    /\ IdleGlossary
    /\ IdleOrder
    /\ IdleLinePass
    /\ IdleCalls
    /\ IdleFunctions
    /\ IdleTranslate
    /\ IdleRun
    /\ IdleProof
    /\ IdleBatch
    /\ IdleGender
    /\ IdleCopyEdit

NextPhases ==
    \/ MainStart
    \/ GlossaryPhaseFile
    \/ GlossaryPhaseEnds
    \/ TranslationPhaseFile
    \/ TranslationPhaseEnds
    \/ ProofingPhaseStarts
    \/ NonEnglishReadFile
    \/ NonEnglishRetranslate
    \/ NonEnglishWriteFile
    \/ NonEnglishEnds
    \/ GenderPassFile
    \/ GenderPassEnds
    \/ AIPassFile
    \/ AIPassEnds

SpecPhases == InitPhases /\ [][NextPhases]_vars

GlossaryCalls == {"build_glossary", "proof_glossary_file", "master_written"}
TranslationCalls == {"translate", "chapter_written"}

\* C17: with proofing_only set, a run makes no glossary-build call and no
\* translation call and writes no translated chapter file.
C17_ProofingOnlySkipsBuildAndTranslate ==
    mn.proofing_only =>
        /\ mn.calls \cap (GlossaryCalls \cup TranslationCalls) = {}
        /\ mn.visited = {}

\* C17 witness: a proofing-only run with input chapters present went through
\* its proofing passes, wrote an output file there, and returned.
C17_Witness ==
    /\ mn.proofing_only
    /\ mn.inputs > 0
    /\ mn.pc = "returned"
    /\ "proofed_written" \in mn.calls
    /\ mn.passes # <<>>

\* C18: with skip_phase1 set and proofing_only unset, a run makes no
\* glossary-build and no glossary-proofing call and does not write the master
\* glossary, and its translation phase visits every input chapter.
C18_SkipPhase1StillTranslatesAll ==
    (mn.skip_phase1 /\ ~mn.proofing_only) =>
        /\ mn.calls \cap GlossaryCalls = {}
        /\ mn.pc \notin {"start", "translate"} => mn.visited = 1..mn.inputs

\* C18 witness: such a run translated all of its chapters and went on.
C18_Witness ==
    /\ mn.skip_phase1
    /\ ~mn.proofing_only
    /\ mn.inputs = NumChapters
    /\ mn.visited = Chapters
    /\ "translate" \in mn.calls
    /\ mn.pc = "returned"

PassRank(pass) == CHOOSE i \in DOMAIN PassOrder : PassOrder[i] = pass

\* C19: run_proofing_phase runs no pass that comes before the selected one
\* in the order non-English check, gender proofing, AI copy-edit.
C19_NoPassBeforeTheSelectedOne ==
    (mn.variant = "translationManager" /\ mn.subphase \in {"non_english", "gender", "final"}) =>
        \A i \in DOMAIN mn.passes : PassRank(mn.passes[i]) >= PassRank(mn.subphase)

\* C20: no failure on one file leaves the proofing phase: the pass logs it
\* and goes on with the next file.
C20_NoFileFailureLeavesThePhase == mn.pc # "raised"

(***************************************************************************)
(* The non-English pass and the cancel flag.  translation.proofing walks   *)
(* each file line by line and retranslates a flagged line on the spot;     *)
(* proofing.proofing reads each file whole.  The Stop button may be        *)
(* pressed at any moment; pause_event is left set.                         *)
(***************************************************************************)
MaxFileLines == 2    \* lines in an output file of this pass

PassVersions == {"translation.proofing", "proofing.proofing"}

\* TranslationApp.stop_translation while the pass runs
StopDuringPass ==
    /\ lp.pc \notin {"idle", "returned"}
    /\ ~lp.cancel_requested
    /\ lp' = [lp EXCEPT !.cancel_requested = TRUE]
    /\ UNCHANGED notLinePass

\* if cancel_flag and cancel_flag():
CancelSeen == lp.cancel_flag /\ lp.cancel_requested

\* for fname in ...: the cancel check in front of a file, then the file is
\* read (proofing.proofing collects its flagged lines in the same step)
LinePassNextFile ==
    /\ lp.pc = "file_top"
    /\ IF lp.file > NumChapters \/ CancelSeen
       THEN lp' = [lp EXCEPT !.pc = "returned"]
       ELSE IF lp.version = "translation.proofing"
            THEN lp' = [lp EXCEPT !.pc = "line", !.line = 1, !.changed = FALSE]
            ELSE lp' = [lp EXCEPT !.file = @ + 1]
    /\ UNCHANGED notLinePass

\* translation.proofing, for i in range(num_lines): the cancel check, then
\* the line; a flagged line is retranslated and may get a replacement
LinePassLine ==
    /\ lp.pc = "line"
    /\ lp.line <= MaxFileLines
    /\ IF CancelSeen
       THEN lp' = [lp EXCEPT !.pc = "returned", !.cut = TRUE,
                             !.discarded = lp.changed]
       ELSE \E replaced \in BOOLEAN :
               lp' = [lp EXCEPT !.line = @ + 1, !.changed = @ \/ replaced]
    /\ UNCHANGED notLinePass

\* translation.proofing, after the lines: if changed: the file is rewritten
LinePassFileEnds ==
    /\ lp.pc = "line"
    /\ lp.line > MaxFileLines
    /\ lp' = [lp EXCEPT !.pc = "file_top", !.file = @ + 1, !.line = 0,
                        !.written = IF lp.changed THEN @ \cup {lp.file} ELSE @]
    /\ UNCHANGED notLinePass

InitLinePass ==
    /\ \E version \in PassVersions, cancel_flag \in BOOLEAN :
          lp = [version |-> version, cancel_flag |-> cancel_flag,
                cancel_requested |-> FALSE, pc |-> "file_top", file |-> 1,
                line |-> 0, changed |-> FALSE, written |-> {}, cut |-> FALSE,
                discarded |-> FALSE]
    /\ IdleEarlier
    /\ IdleGlossary
    /\ IdleOrder
    /\ IdlePhases
    /\ IdleCalls
    /\ IdleFunctions

NextLinePass ==
    \/ StopDuringPass
    \/ LinePassNextFile
    \/ LinePassLine
    \/ LinePassFileEnds

SpecLinePass == InitLinePass /\ [][NextLinePass]_vars

\* C22: the cancel flag is read only between files: a file whose processing
\* has begun is never cut short, and nothing done to it is discarded,
\* because cancellation was requested.
C22_NoFileCutShortByCancel == ~lp.cut

(***************************************************************************)
(* One call site of the generative model.  build_glossary and              *)
(* proof_glossary_file call generate_content directly; translate submits   *)
(* it to an executor and waits on the future with a timeout inside a       *)
(* `with` block; the proofing passes go through call_with_timeout, which   *)
(* joins a thread for a while and then leaves it running.  An underlying   *)
(* call is running, hung (it never returns) or finished.                   *)
(***************************************************************************)
\* max_retries of build_glossary and of proof_glossary_file
GlossaryMaxRetries == 2
GlossaryProofMaxRetries == 3

CallSites ==
    {"build_glossary", "proof_glossary_file", "translate", "batch_retranslate",
     "proof_gender_pronouns", "proofread_with_ai"}

\* how the site waits for generate_content
Mechanism(site) ==
    CASE site \in {"build_glossary", "proof_glossary_file"} -> "direct"
      [] site = "translate" -> "executor"
      [] OTHER -> "call_with_timeout"

SiteMaxRetries(site) ==
    CASE site = "build_glossary" -> GlossaryMaxRetries
      [] site = "proof_glossary_file" -> GlossaryProofMaxRetries
      [] site = "translate" -> MaxRetries("PRIMARY")
      [] site = "batch_retranslate" -> BatchMaxRetries
      [] site = "proof_gender_pronouns" -> GenderMaxRetries
      [] OTHER -> AIMaxRetries

Outstanding == { i \in DOMAIN mc.calls : mc.calls[i] # "finished" }
CurrentCall == mc.calls[Len(mc.calls)]

\* the attempt failed: the loop counts it and goes round, or gives up
AttemptOver(m) ==
    [m EXCEPT !.attempt = @ + 1,
              !.pc = IF m.attempt + 1 < SiteMaxRetries(m.site) THEN "ready" ELSE "done"]

\* generate_content is called: directly, by executor.submit, or on the
\* thread call_with_timeout starts
IssueModelCall ==
    /\ mc.pc = "ready"
    /\ \E behaviour \in {"running", "hung"} :
          mc' = [mc EXCEPT !.pc = "waiting", !.calls = Append(@, behaviour)]
    /\ UNCHANGED notCalls

\* an underlying call returns or raises; the site notices when it is the
\* call it is waiting for
ModelCallFinishes ==
    /\ \E i \in DOMAIN mc.calls :
          /\ mc.calls[i] = "running"
          /\ LET m == [mc EXCEPT !.calls[i] = "finished"]
             IN  IF i = Len(mc.calls) /\ mc.pc = "waiting"
                 THEN \E ok \in BOOLEAN :
                         mc' = IF ok THEN [m EXCEPT !.pc = "done"] ELSE AttemptOver(m)
                 ELSE IF i = Len(mc.calls) /\ mc.pc = "shutdown"
                      THEN mc' = AttemptOver(m)
                      ELSE mc' = m
    /\ UNCHANGED notCalls

\* future.result(timeout=90) raises, and the with block then waits in
\* executor.shutdown; thread.join(timeout) returns with the thread alive
CallTimesOut ==
    /\ mc.pc = "waiting"
    /\ Mechanism(mc.site) # "direct"
    /\ mc' = IF Mechanism(mc.site) = "executor"
             THEN [mc EXCEPT !.pc = "shutdown"]
             ELSE AttemptOver(mc)
    /\ UNCHANGED notCalls

InitCalls ==
    /\ \E site \in CallSites :
          mc = [site |-> site, pc |-> "ready", attempt |-> 0, calls |-> <<>>]
    /\ IdleEarlier
    /\ IdleGlossary
    /\ IdleOrder
    /\ IdlePhases
    /\ IdleLinePass
    /\ IdleFunctions

NextCalls ==
    \/ IssueModelCall
    \/ ModelCallFinishes
    \/ CallTimesOut

SpecCalls == InitCalls /\ [][NextCalls]_vars

\* C23: every model call runs under a wall-clock timeout, so that no site
\* waits forever for a call that never returns.
C23_NoSiteWaitsForeverOnHungCall ==
    ~(/\ mc.pc \in {"waiting", "shutdown"}
      /\ CurrentCall = "hung"
      /\ mc.pc = "waiting" => Mechanism(mc.site) = "direct")

\* C24: at most one underlying model call is outstanding at any moment.
C24_AtMostOneCallOutstanding == Cardinality(Outstanding) <= 1


(***************************************************************************)
(* Glossary.normalize_term on its own.  The repository holds two bodies of *)
(* the method: translation/glossary.py, which the translator imports, and  *)
(* the snapshot glossary_20250527101041.py.                                *)
(***************************************************************************)
MaxTermLen == 3      \* characters in a term handed to normalize_term

NormalizeVersions == {"translation.glossary", "history.glossary"}
TermChars == {"a", "A", " ", "-", FullWidthA}
Terms == UNION { SeqsOfLen(TermChars, n) : n \in 0..MaxTermLen }

\* unicodedata.normalize("NFKC", term)
NFKC(s) ==
    [i \in 1..Len(s) |->
       CASE s[i] = FullWidthA -> "A"
         [] s[i] = FullWidthSmallA -> "a"
         [] OTHER -> s[i]]

\* re.sub(r'\s+', '', term)
RemoveWhitespace(s) == SelectSeq(s, LAMBDA c : c \notin Whitespace)

\* re.sub(r'[^\w\-]', '', term)
KeepWordAndHyphen(s) == SelectSeq(s, LAMBDA c : c \in Letters \cup {"-"})

\* glossary_20250527101041.py 87-99
history_normalize_term(term) ==
    LowerCase(KeepWordAndHyphen(RemoveWhitespace(NFKC(term))))

NormalizeTerm(version, term) ==
    IF version = "translation.glossary"
    THEN normalize_term(term)
    ELSE history_normalize_term(term)

CallNormalizeTerm ==
    /\ nt.pc = "called"
    /\ nt' = [nt EXCEPT !.pc = "returned",
                        !.normalized = NormalizeTerm(nt.version, nt.term)]
    /\ UNCHANGED notNormalize

InitNormalize ==
    /\ \E version \in NormalizeVersions, term \in Terms :
          nt = [version |-> version, term |-> term, pc |-> "called",
                normalized |-> <<>>]
    /\ IdleDrivers
    /\ IdleMatch
    /\ IdleAIOrder
    /\ IdleGlossaryPhase

NextNormalize == CallNormalizeTerm

SpecNormalize == InitNormalize /\ [][NextNormalize]_vars

\* the four steps the description names, in its order
NormalizedAsDescribed(t) ==
    LET composed == NFKC(t)
        unspaced == SelectSeq(composed, LAMBDA c : c \notin Whitespace)
        kept == SelectSeq(unspaced, LAMBDA c : c \in Letters \/ c = "-")
    IN  [i \in 1..Len(kept) |-> Lower(kept[i])]

\* C25: normalize_term(t) is t after compatibility normalization, removal of
\* all whitespace, removal of every character that is neither a word
\* character nor a hyphen, and lowercasing.
C25_NormalizeTermAsDescribed ==
    nt.pc = "returned" => nt.normalized = NormalizedAsDescribed(nt.term)

(***************************************************************************)
(* The glossary entries handed to the model with one file.  A glossary is  *)
(* the sequence of the first fields of its lines; a text is a sequence of  *)
(* characters.  The gender pass of run_proofing_phase loads the context    *)
(* glossary with Proofreader.load_context_glossary and hands it to         *)
(* proof_gender_pronouns; Translator.translate reads the name glossary     *)
(* with get_name_glossary, the snapshot translator_20250525183224.py with  *)
(* get_matched_name_glossary_entries.                                      *)
(***************************************************************************)
MaxChapterLen == 3   \* characters in the text of a file
MaxEntries == 2      \* lines in a name or context glossary

MatchSites ==
    {"proof_gender_pronouns", "translation.translator", "history.translator"}
ChapterChars == {"a", "A", "b", " "}
ChapterTexts == UNION { SeqsOfLen(ChapterChars, n) : n \in 0..MaxChapterLen }
EntryTerms == { <<"a">>, <<"A">>, <<"a", "b">> }
MatchGlossaries == UNION { SeqsOfLen(EntryTerms, n) : n \in 0..MaxEntries }

\* \b in front of position i: exactly one of the two neighbours is a \w
WordAt(chapter_text, i) ==
    i \in DOMAIN chapter_text /\ chapter_text[i] \in Letters
Boundary(chapter_text, i) ==
    WordAt(chapter_text, i - 1) # WordAt(chapter_text, i)

\* re.search(rf'\b{re.escape(term)}\b', chapter_text, flags)
Search(term, chapter_text, ignorecase) ==
    \E i \in 1..(Len(chapter_text) - Len(term) + 1) :
        LET found == SubSeq(chapter_text, i, i + Len(term) - 1)
        IN  /\ Boundary(chapter_text, i)
            /\ Boundary(chapter_text, i + Len(term))
            /\ IF ignorecase THEN LowerCase(found) = LowerCase(term)
                             ELSE found = term

\* get_matched_context_glossary_entries: the keys of the dict returned
get_matched_context_glossary_entries(glossary, chapter_text) ==
    { LowerCase(glossary[i]) :
        i \in { j \in DOMAIN glossary : Search(glossary[j], chapter_text, TRUE) } }

\* get_matched_name_glossary_entries: the originals of the lines returned
get_matched_name_glossary_entries(glossary, chapter_text) ==
    { glossary[i] :
        i \in { j \in DOMAIN glossary : Search(glossary[j], chapter_text, FALSE) } }

\* Translator.get_name_glossary: the text between the markers
get_name_glossary(glossary) == { glossary[i] : i \in DOMAIN glossary }

\* Proofreader.load_context_glossary, called once in front of the files
LoadContextGlossary ==
    /\ mt.site = "proof_gender_pronouns"
    /\ mt.pc = "start"
    /\ mt' = [mt EXCEPT
                 !.context_dict =
                     get_matched_context_glossary_entries(mt.glossary, <<>>),
                 !.pc = "loaded"]
    /\ UNCHANGED notMatch

\* proof_gender_pronouns(translated, context_dict, ...) for the file
ProofGenderPronouns ==
    /\ mt.site = "proof_gender_pronouns"
    /\ mt.pc = "loaded"
    /\ mt' = [mt EXCEPT !.handed = mt.context_dict, !.pc = "called"]
    /\ UNCHANGED notMatch

\* translate(text): the glossary appended to the instructions
TranslateWithGlossary ==
    /\ mt.site # "proof_gender_pronouns"
    /\ mt.pc = "start"
    /\ mt' = [mt EXCEPT
                 !.handed =
                     IF mt.site = "translation.translator"
                     THEN get_name_glossary(mt.glossary)
                     ELSE get_matched_name_glossary_entries(mt.glossary, mt.text),
                 !.pc = "called"]
    /\ UNCHANGED notMatch

InitMatch ==
    /\ \E site \in MatchSites, glossary \in MatchGlossaries,
          chapter_text \in ChapterTexts :
          mt = [site |-> site, glossary |-> glossary, text |-> chapter_text,
                context_dict |-> {}, handed |-> {}, pc |-> "start"]
    /\ IdleDrivers
    /\ IdleNormalize
    /\ IdleAIOrder
    /\ IdleGlossaryPhase

NextMatch ==
    \/ LoadContextGlossary
    \/ ProofGenderPronouns
    \/ TranslateWithGlossary

SpecMatch == InitMatch /\ [][NextMatch]_vars

\* the maximal runs of word characters of a text; cur is the run collected
RECURSIVE WordsOf(_, _)
WordsOf(chapter_text, cur) ==
    IF chapter_text = <<>> THEN (IF cur = <<>> THEN {} ELSE {cur})
    ELSE IF Head(chapter_text) \in Letters
         THEN WordsOf(Tail(chapter_text), Append(cur, Head(chapter_text)))
         ELSE (IF cur = <<>> THEN {} ELSE {cur})
                \cup WordsOf(Tail(chapter_text), <<>>)

\* C29: the context glossary handed to the gender-pronoun pass with a file
\* is the set of context-glossary entries whose term occurs in that file's
\* content: an entry whose term occurs in it is supplied, any other is not.
C29_ContextEntriesOfTheFile ==
    (mt.site = "proof_gender_pronouns" /\ mt.pc = "called") =>
        mt.handed =
            { LowerCase(mt.glossary[i]) :
                i \in { j \in DOMAIN mt.glossary :
                          LowerCase(mt.glossary[j])
                            \in { LowerCase(word) : word \in WordsOf(mt.text, <<>>) } } }

\* C30: the glossary text injected into a chapter's translation call holds
\* only name-glossary entries whose original term occurs as a whole word in
\* the chapter's text.
C30_OnlyEntriesOfTheChapter ==
    (mt.site # "proof_gender_pronouns" /\ mt.pc = "called") =>
        \A term \in mt.handed : term \in WordsOf(mt.text, <<>>)

(***************************************************************************)
(* The final AI pass of run_proofing_phase over the files of output/, and  *)
(* the previous-chapter file proofread_with_ai looks up for each of them.  *)
(* The pass writes back whatever proofread_with_ai returns, so a file it   *)
(* has handled holds its final text.                                       *)
(***************************************************************************)
\* str.zfill(width)
RECURSIVE ZFill(_, _)
ZFill(digits, width) ==
    IF Len(digits) >= width THEN digits ELSE ZFill(<<"0">> \o digits, width)

\* proofread_with_ai 74-78: the name of the previous chapter's file
PrevFile(current_fname) ==
    LET match == FirstDigits(current_fname)
        num == IntOf(match)
    IN  <<"chapter_">> \o ZFill(Digits(num - 1), Len(match)) \o <<".txt">>

\* what proofread_with_ai appends as "Previous Chapter Context"
PrevContext(fname) ==
    IF PrevFile(fname) \notin ao.output_files THEN "none"
    ELSE IF \E i \in DOMAIN ao.handled : ao.handled[i].file = PrevFile(fname)
         THEN "final text"
         ELSE "text not copy-edited yet"

\* translated_files = [...]; translated_files.sort()
FinalPassStarts ==
    /\ ao.pc = "start"
    /\ ao' = [ao EXCEPT
                 !.translated_files = Sorted("translationManager", ao.output_files),
                 !.pc = "final"]
    /\ UNCHANGED notAIOrder

\* one turn of the loop: proofread_with_ai(file_path), then the write
FinalPassFile ==
    /\ ao.pc = "final"
    /\ Len(ao.handled) < Len(ao.translated_files)
    /\ LET fname == ao.translated_files[Len(ao.handled) + 1]
       IN  ao' = [ao EXCEPT
                    !.handled = Append(@, [file |-> fname,
                                           context |-> PrevContext(fname)])]
    /\ UNCHANGED notAIOrder

FinalPassEnds ==
    /\ ao.pc = "final"
    /\ Len(ao.handled) = Len(ao.translated_files)
    /\ ao' = [ao EXCEPT !.pc = "end"]
    /\ UNCHANGED notAIOrder

InitAIOrder ==
    /\ ao \in [output_files :
                  { {FileName(n) : n \in S} : S \in (SUBSET Ordinals) \ {{}} },
               translated_files : {<<>>}, handled : {<<>>}, pc : {"start"}]
    /\ IdleDrivers
    /\ IdleNormalize
    /\ IdleMatch
    /\ IdleGlossaryPhase

NextAIOrder ==
    \/ FinalPassStarts
    \/ FinalPassFile
    \/ FinalPassEnds

SpecAIOrder == InitAIOrder /\ [][NextAIOrder]_vars

\* C31: when chapter n is copy-edited and the file of chapter n-1 exists,
\* chapter n-1 has already been copy-edited in this pass and the
\* previous-chapter context supplied is its final text.
C31_PreviousChapterAlreadyCopyEdited ==
    \A i \in DOMAIN ao.handled :
        LET n == IntOf(FirstDigits(ao.handled[i].file))
        IN  (n > 1 /\ FileName(n - 1) \in ao.output_files) =>
                /\ \E j \in 1..(i - 1) : ao.handled[j].file = FileName(n - 1)
                /\ ao.handled[i].context = "final text"

(***************************************************************************)
(* Phase 1 of main(): build_glossary for every chapter, proof_glossary_file *)
(* and split_glossary, up to the start of the translation phase.  A line   *)
(* of the master glossary is [id, form]: form is "raw" as build_glossary   *)
(* wrote it and "clean" as the proofing model returned it.  derived is the *)
(* master the name and context files were last split from.                 *)
(***************************************************************************)
GlossaryChapters == 2   \* chapter files in input/
MaxExisting == 2        \* lines the master glossary holds before the run
ChunkLines == 1         \* lines that fit the max_bytes of one chunk

RawLines(n) == [i \in 1..n |-> [id |-> i, form |-> "raw"]]

\* split_text_into_chunks(glossary_text, max_bytes=10240)
NumChunks(master) == (Len(master) + ChunkLines - 1) \div ChunkLines
GlossaryChunk(master, k) ==
    SubSeq(master, (k - 1) * ChunkLines + 1,
           IF k * ChunkLines < Len(master) THEN k * ChunkLines ELSE Len(master))

\* The prompts of proof_glossary_file: translation/proofing.py (main_ph) sends
\* the whole glossary text in one prompt and returns at once when it is
\* empty; proofing/glossary_proofing.py (translationManager) sends it chunk
\* by chunk.
ProofPrompts(variant, master) ==
    IF variant = "main_ph"
    THEN IF master = <<>> THEN 0 ELSE 1
    ELSE NumChunks(master)
ProofPrompt(variant, master, k) ==
    IF variant = "main_ph" THEN master ELSE GlossaryChunk(master, k)

\* response.text.strip() for a chunk
Cleaned(chunk) == [i \in DOMAIN chunk |-> [chunk[i] EXCEPT !.form = "clean"]]

IdsOf(lines) == { lines[i].id : i \in DOMAIN lines }

\* the file is rewritten from the cleaned text (glossary_proofing.py: from
\* all_cleaned_entries, when it is not empty)
MasterAfterProof(master, all_cleaned_entries) ==
    IF all_cleaned_entries # <<>> THEN all_cleaned_entries ELSE master

\* where main() goes once the build loop is over, and after each step
AfterBuilds(variant) == IF variant = "main_ph" THEN "split" ELSE "proof"
AfterSplit(variant) == IF variant = "main_ph" THEN "proof" ELSE "translate"
AfterProof(variant) == IF variant = "main_ph" THEN "translate" ELSE "split"

\* glossary.build_glossary(content, log_message, split_glossary=False)
PhaseBuildChapter ==
    /\ pg.pc = "build"
    /\ pg.chapter < GlossaryChapters
    /\ \E found \in BOOLEAN :
          pg' = [pg EXCEPT
                   !.chapter = @ + 1,
                   !.master = IF found
                              THEN Append(@, [id |-> Len(pg.master) + 1,
                                              form |-> "raw"])
                              ELSE @]
    /\ UNCHANGED notGlossaryPhase

PhaseBuildsEnd ==
    /\ pg.pc = "build"
    /\ pg.chapter = GlossaryChapters
    /\ pg' = [pg EXCEPT !.pc = AfterBuilds(pg.variant)]
    /\ UNCHANGED notGlossaryPhase

\* split_glossary(glossary.get_current_glossary_file())
PhaseSplit ==
    /\ pg.pc = "split"
    /\ pg' = [pg EXCEPT !.derived = pg.master, !.pc = AfterSplit(pg.variant)]
    /\ UNCHANGED notGlossaryPhase

\* proof_glossary_file: the retry loop of one prompt, to its end
ProofGlossaryChunk ==
    /\ pg.pc = "proof"
    /\ pg.chunk <= ProofPrompts(pg.variant, pg.master)
    /\ \E outcome \in {"cleaned", "empty response", "retries exhausted"} :
          LET chunk == ProofPrompt(pg.variant, pg.master, pg.chunk)
          IN  pg' = [pg EXCEPT
                       !.chunk = @ + 1,
                       !.cleaned = IF outcome = "cleaned"
                                   THEN @ \o Cleaned(chunk) ELSE @,
                       !.failed = IF outcome = "cleaned"
                                  THEN @ ELSE @ \cup IdsOf(chunk)]
    /\ UNCHANGED notGlossaryPhase

\* proof_glossary_file: the glossary is empty, or the chunks are done
ProofGlossaryEnds ==
    /\ pg.pc = "proof"
    /\ pg.chunk > ProofPrompts(pg.variant, pg.master)
    /\ pg' = [pg EXCEPT !.master = MasterAfterProof(pg.master, pg.cleaned),
                        !.proofed = TRUE,
                        !.pc = AfterProof(pg.variant)]
    /\ UNCHANGED notGlossaryPhase

\* setup_glossary has split the glossary the run starts with
InitGlossaryPhase ==
    /\ \E variant \in Variants, n \in 0..MaxExisting :
          pg = [variant |-> variant, pc |-> "build", chapter |-> 0,
                master |-> RawLines(n), derived |-> RawLines(n), chunk |-> 1,
                cleaned |-> <<>>, failed |-> {}, proofed |-> FALSE]
    /\ IdleDrivers
    /\ IdleNormalize
    /\ IdleMatch
    /\ IdleAIOrder

NextGlossaryPhase ==
    \/ PhaseBuildChapter
    \/ PhaseBuildsEnd
    \/ PhaseSplit
    \/ ProofGlossaryChunk
    \/ ProofGlossaryEnds

SpecGlossaryPhase == InitGlossaryPhase /\ [][NextGlossaryPhase]_vars

\* C35: when the translation phase starts after a glossary-build phase, the
\* name and context files are the split of the master glossary as it stands:
\* the master is not rewritten after the last split before translation.
C35_DerivedFilesMatchMaster ==
    pg.pc = "translate" => pg.derived = pg.master

\* C37: if the model call for a chunk of the master glossary fails on all
\* its retries or returns an empty response, the entries of that chunk are
\* still in the master file when proof_glossary_file has returned.
C37_FailedChunksKeepTheirEntries ==
    pg.proofed => pg.failed \subseteq IdsOf(pg.master)

(***************************************************************************)
(* run_translation_phase (translationManager) over the chapter files, run  *)
(* without Pause or Stop: each translator.translate call is carried out by *)
(* the steps of SpecTranslate.                                             *)
(***************************************************************************)
\* the content of a chapter file that reaches translator.translate: it is
\* neither empty nor HTML only
ChapterContents == {<<Word>>, <<Word, <<"img", 1>>>>}

\* translator.translate(content, log_message) is entered
CallTranslate(content) ==
    /\ text' = content
    /\ image_tags' = <<>>
    /\ prompt' = <<>>
    /\ calls' = <<>>
    /\ stuck' = FALSE
    /\ Goto("NONE", 0, "start", <<>>, Pending)

\* `continue` or an exception caught by the loop body (no file saved), or
\* the end of the body (final_translation saved to the output file); nothing
\* of the translate call is kept
ChapterDone(saved) ==
    /\ tc' = [tc EXCEPT !.pc = "top", !.idx = @ + 1, !.saved = saved]
    /\ text' = <<>>
    /\ image_tags' = <<>>
    /\ prompt' = <<>>
    /\ calls' = <<>>
    /\ stuck' = FALSE
    /\ Goto("NONE", 0, "idle", <<>>, Pending)

\* abs(percent_diff) > retry_threshold_percent or diff_kb > retry_threshold_kb:
\* the sizes in bytes of the content and of the translation decide
SizeDeviations == BOOLEAN

SizeLoopOneMore(retry_count) == retry_count <= MaxSizeRetries

\* ... and retry_count < max_retries
SizeLoopContinues(retry_count) == retry_count < MaxSizeRetries

\* for i, filename in enumerate(text_files, 1): the file is read and
\* translate is called for the first time
ChapterBegins ==
    /\ tc.pc = "top"
    /\ tc.idx <= NumChapters
    /\ \E content \in ChapterContents : CallTranslate(content)
    /\ tc' = [tc EXCEPT !.pc = "translating", !.retry_count = 0,
                        !.translate_calls = 1]
    /\ UNCHANGED notChapters

\* the for loop has no file left
ChaptersEnd ==
    /\ tc.pc = "top"
    /\ tc.idx > NumChapters
    /\ tc' = [tc EXCEPT !.pc = "returned"]
    /\ UNCHANGED tvars
    /\ UNCHANGED notChapters

\* the first translate call of the chapter is over
FirstTranslateEnds ==
    /\ tc.pc = "translating"
    /\ tpc = "done"
    /\ IF ret.kind # "text"
       THEN ChapterDone(FALSE)
       ELSE \E deviant \in SizeDeviations :
               IF deviant /\ SizeLoopContinues(0)
               THEN /\ CallTranslate(text)
                    /\ tc' = [tc EXCEPT !.pc = "retrying", !.retry_count = 1,
                                        !.translate_calls = @ + 1]
               ELSE ChapterDone(TRUE)
    /\ UNCHANGED notChapters

\* a translate call made inside the size loop is over
RetryTranslateEnds ==
    /\ tc.pc = "retrying"
    /\ tpc = "done"
    /\ CASE ret.kind = "raised" -> ChapterDone(FALSE)
         [] ret.kind = "None" -> ChapterDone(TRUE)
         [] OTHER ->
              \E deviant \in SizeDeviations :
                 IF deviant /\ SizeLoopContinues(tc.retry_count)
                 THEN /\ CallTranslate(text)
                      /\ tc' = [tc EXCEPT !.retry_count = @ + 1,
                                          !.translate_calls = @ + 1]
                 ELSE ChapterDone(TRUE)
    /\ UNCHANGED notChapters

InitChapters ==
    /\ tc = [pc |-> "top", idx |-> 1, retry_count |-> 0, translate_calls |-> 0,
             saved |-> FALSE]
    /\ IdleTranslate
    /\ calls = <<>>
    /\ sleeps = <<>>
    /\ stuck = FALSE
    /\ ret = Pending
    /\ IdleRun
    /\ IdleProof
    /\ IdleBatch
    /\ IdleGender
    /\ IdleCopyEdit
    /\ IdleGlossary
    /\ IdleOrder
    /\ IdlePhases
    /\ IdleLinePass
    /\ IdleCalls
    /\ IdleNormalize
    /\ IdleMatch
    /\ IdleAIOrder
    /\ IdleGlossaryPhase

NextChapters ==
    \/ ChapterBegins
    \/ ChaptersEnd
    \/ FirstTranslateEnds
    \/ RetryTranslateEnds
    \/ TranslateStart
    \/ Submit
    \/ ReturnsText
    \/ RaisesError
    \/ TimeoutElapses
    \/ ShutdownReturns

SpecChapters == InitChapters /\ [][NextChapters]_vars

\* the worker thread keeps running: it takes a step whenever it has one
FairSpecChapters == SpecChapters /\ WF_vars(NextChapters)

\* the worker waits in executor.shutdown for a call that never ends
WaitsForStuckCall == tpc = "shutdown" /\ stuck

\* C39: provided every underlying call returns, raises or times out, the
\* translation phase makes at most 5 translate calls per chapter (the first
\* and at most 4 size retries), each translate makes at most 3 underlying
\* calls with the primary and at most 2 with the secondary instruction set,
\* and the loop then moves on to the next chapter.
C39_BoundedCallsThenNextChapter ==
    /\ [](/\ tc.translate_calls <= 5
          /\ Cardinality(CallsWith("PRIMARY")) <= 3
          /\ Cardinality(CallsWith("SECONDARY")) <= 2)
    /\ \A i \in Chapters :
          (tc.idx = i) ~> (tc.idx = i + 1 \/ WaitsForStuckCall)

\* the loop has moved on to chapter 2, whose fifth translate call has
\* returned after three primary and two secondary calls
C39_Witness ==
    /\ tc.idx = 2
    /\ tc.translate_calls = 5
    /\ tpc = "done"
    /\ Cardinality(CallsWith("PRIMARY")) = 3
    /\ Cardinality(CallsWith("SECONDARY")) = 2

====
